---- MODULE Spec2Model ----
(***************************************************************************)
(* A model of the oppgaave task/event manager:                             *)
(*   - the in-memory event Calendar (internal/calendar/calendar.go),       *)
(*   - the task store and its HTTP handlers (internal/database,            *)
(*     internal/handlers, internal/models),                                *)
(*   - the cost model and the recurrence expansion as they are computed.   *)
(* Times are integers counting hours since Go's zero time.Time             *)
(* (0001-01-01 00:00 UTC), so 0 is the zero time (IsZero) and every        *)
(* location is taken to be UTC.                                            *)
(***************************************************************************)
EXTENDS Integers, Sequences, FiniteSets, TLC

VARIABLES
    events,     \* Calendar.events: map from event ID to the stored event
    tasks,      \* rows of the tasks table, a sequence indexed by id
    prereqs,    \* rows of task_prerequisites: set of <<task_id, prerequisite_task_id>>
    budgets,    \* rows of daily_budgets: function from date to [total, spent]
    req,        \* the call or HTTP request being served, NoReq when there is none
    ret,        \* what the call returned, Pending until it has
    loop,       \* GenerateRecurringEvents: the variables of its for loop while
                \* it runs (current, count, instances), NoLoop otherwise
    goroutines, \* the calls that run concurrently: for each goroutine the
                \* call it makes, where it stands in it and its local variables
    mutex       \* JSONStorage.mutex, a sync.RWMutex: the goroutine holding the
                \* write lock (NoWriter for none) and the read locks held

vars == <<events, tasks, prereqs, budgets, req, ret, loop, goroutines, mutex>>

taskVars == <<tasks, prereqs, budgets, loop, goroutines, mutex>>

NoLoop == [pc |-> "none"]

\* No goroutine besides the caller's.
NoGoroutines == << >>

NoWriter == 0      \* goroutines are numbered from 1

\* The zero value of sync.RWMutex: unlocked. readers is the bag of read locks
\* held, as a function from goroutine to the number it holds.
Unlocked == [writer |-> NoWriter, readers |-> << >>]

NoReq == [op |-> "none"]
Pending == [op |-> "pending"]

\* A caller makes the call r: the call is served by the operation's action.
Call(r) ==
    /\ req = NoReq
    /\ req' = r
    /\ ret' = Pending
    /\ UNCHANGED <<events, taskVars>>

\* The caller takes the returned value.
Return ==
    /\ req # NoReq
    /\ ret # Pending
    /\ req' = NoReq
    /\ ret' = Pending
    /\ UNCHANGED <<events, taskVars>>

\* The operation op is being called and has not returned.
Serving(op) == req.op = op /\ ret = Pending

(***************************************************************************)
(* Bounds of the model.                                                    *)
(***************************************************************************)
MaxTime == 3        \* event start and end times range over 0..MaxTime
MaxDuration == 60   \* task durations given to the cost model range up to MaxDuration
MaxOrdinal == 4     \* energy, difficulty and priority range over 0..MaxOrdinal
MaxCreated == 1     \* tasks created on top of the sample rows
MaxStartDay == 2    \* recurring events start on day 1..MaxStartDay
MaxStorageCallers == 3  \* goroutines that call into the JSON storage at a time

(***************************************************************************)
(* time.Time                                                               *)
(***************************************************************************)
IsZero(t) == t = 0
Before(t, u) == t < u
After(t, u) == t > u
Equal(t, u) == t = u

(***************************************************************************)
(* calendar.go: recurrence types and rules                                 *)
(***************************************************************************)
RecurrenceNone == "none"
RecurrenceDaily == "daily"
RecurrenceWeekly == "weekly"
RecurrenceMonthly == "monthly"
RecurrenceYearly == "yearly"
RecurrenceCustom == "custom"

\* A RecurrenceRule. EndDate = 0 stands for the nil pointer, WeekDays is the
\* length of the WeekDays slice.
Rule(type, interval, endDate, count, weekDays, monthDay) ==
    [Type |-> type, Interval |-> interval, EndDate |-> endDate, Count |-> count,
     WeekDays |-> weekDays, MonthDay |-> monthDay]

NoRule == Rule(RecurrenceNone, 0, 0, 0, 0, 0)
ZeroRule == Rule("", 0, 0, 0, 0, 0)    \* the Go zero value of RecurrenceRule

\* As validateRecurrenceRule, without the check that end date and count are
\* not both given.
validateRecurrenceRuleWithoutTerminatorCheck(rule) ==
    IF rule.Interval <= 0 THEN "recurrence interval must be positive"
    ELSE IF rule.Type \notin {RecurrenceDaily, RecurrenceWeekly, RecurrenceMonthly,
                              RecurrenceYearly, RecurrenceCustom}
         THEN "invalid recurrence type"
    ELSE IF rule.Type = RecurrenceCustom /\ rule.WeekDays = 0 /\ rule.MonthDay = 0
         THEN "custom recurrence requires weekdays or month day specification"
    ELSE IF rule.MonthDay < 0 \/ rule.MonthDay > 31 THEN "invalid month day"
    ELSE "nil"

\* validateRecurrenceRule: the error it returns, "nil" for none.
validateRecurrenceRule(rule) ==
    IF rule.Interval <= 0 THEN "recurrence interval must be positive"
    ELSE IF rule.Type \notin {RecurrenceDaily, RecurrenceWeekly, RecurrenceMonthly,
                              RecurrenceYearly, RecurrenceCustom}
         THEN "invalid recurrence type"
    ELSE IF rule.Type = RecurrenceCustom /\ rule.WeekDays = 0 /\ rule.MonthDay = 0
         THEN "custom recurrence requires weekdays or month day specification"
    ELSE IF rule.EndDate # 0 /\ rule.Count > 0
         THEN "recurrence cannot have both end date and count"
    ELSE IF rule.MonthDay < 0 \/ rule.MonthDay > 31 THEN "invalid month day"
    ELSE "nil"

\* validateEvent: the error it returns, "nil" for none.
validateEvent(event) ==
    IF event.Title = "" THEN "event title is required"
    ELSE IF IsZero(event.StartTime) THEN "event start time is required"
    ELSE IF IsZero(event.EndTime) THEN "event end time is required"
    ELSE IF Before(event.EndTime, event.StartTime)
         THEN "event end time must be after start time"
    ELSE IF event.Recurrence.Type # RecurrenceNone
            /\ validateRecurrenceRule(event.Recurrence) # "nil"
         THEN "invalid recurrence rule"
    ELSE "nil"

\* As eventsOverlap, with events that touch at a boundary counted as overlapping.
eventsOverlapLoose(event1, event2) ==
    event1.StartTime <= event2.EndTime /\ event2.StartTime <= event1.EndTime

\* As eventsOverlap, but only asking whether event1 starts inside event2.
eventsOverlapStartInside(event1, event2) ==
    ~Before(event1.StartTime, event2.StartTime) /\ Before(event1.StartTime, event2.EndTime)

eventsOverlap(event1, event2) ==
    Before(event1.StartTime, event2.EndTime) /\ Before(event2.StartTime, event1.EndTime)

\* FindConflicts ranges over the map in an unspecified order and appends the
\* stored events that overlap; the result is modelled as the set of their IDs.
RECURSIVE FindConflictsOver(_, _, _)
FindConflictsOver(store, ids, event) ==
    IF ids = {} THEN {}
    ELSE LET id == CHOOSE i \in ids : TRUE
             existingEvent == store[id]
             rest == FindConflictsOver(store, ids \ {id}, event)
         IN  IF existingEvent.ID = event.ID THEN rest
             ELSE IF eventsOverlap(event, existingEvent) THEN {existingEvent.ID} \cup rest
             ELSE rest

FindConflicts(store, event) == FindConflictsOver(store, DOMAIN store, event)

(***************************************************************************)
(* Calendar: the inputs the calls are made with                            *)
(***************************************************************************)
Times == 0..MaxTime
Clock == {1, 2}                 \* the values time.Now() takes
CallerIDs == {"", "a", "u1"}    \* IDs a caller passes; "" asks for a generated one
UUIDs == {"u1"}                 \* the values uuid.New() takes

Event(id, title, startTime, endTime, recurrence, createdAt) ==
    [ID |-> id, Title |-> title, Description |-> "", Location |-> "",
     StartTime |-> startTime, EndTime |-> endTime, AllDay |-> FALSE,
     Recurrence |-> recurrence, CreatedAt |-> createdAt, UpdatedAt |-> 0,
     Tags |-> << >>]

NilEvent == [ID |-> "nil"]      \* the nil *Event

\* Events with every start and end time, with and without an ID.
TimedEvents ==
    {Event(id, "t", s, e, NoRule, 0) : id \in CallerIDs, s \in Times, e \in Times}

\* Events that differ in title, recurrence rule and creation time.
RuleEvents ==
    {Event("a", "", 1, 2, NoRule, 0),
     Event("u1", "t", 1, 2, NoRule, 1),
     Event("a", "t", 1, 2, ZeroRule, 0),
     Event("", "t", 2, 3, Rule(RecurrenceDaily, 1, 0, 0, 0, 0), 0),
     Event("u1", "t", 1, 2, Rule(RecurrenceDaily, 0, 0, 0, 0, 0), 0),
     Event("a", "t", 1, 2, Rule(RecurrenceWeekly, 1, 3, 2, 0, 0), 0),
     Event("u1", "t", 1, 2, Rule(RecurrenceCustom, 1, 0, 0, 0, 0), 0),
     Event("a", "t", 1, 2, Rule("hourly", 1, 0, 0, 0, 0), 0)}

EventInputs == TimedEvents \cup RuleEvents

CalRet(err, ids) == [err |-> err, ids |-> ids]

\* The map with key id set to event.
Put(store, id, event) ==
    [k \in DOMAIN store \cup {id} |-> IF k = id THEN event ELSE store[k]]

\* The map without key id.
Delete(store, id) == [k \in DOMAIN store \ {id} |-> store[k]]

(***************************************************************************)
(* Calendar operations                                                     *)
(***************************************************************************)
\* AddEvent(req.event) at time now, uuid being what uuid.New() would return.
AddEvent(now, uuid) ==
    /\ Serving("AddEvent")
    /\ UNCHANGED <<taskVars, req>>
    /\ IF req.event = NilEvent
       THEN /\ ret' = CalRet("event cannot be nil", {})
            /\ UNCHANGED events
       ELSE LET withID == IF req.event.ID = "" THEN [req.event EXCEPT !.ID = uuid]
                          ELSE req.event
                err == validateEvent(withID)
                stamped == [withID EXCEPT
                              !.CreatedAt = IF IsZero(withID.CreatedAt) THEN now ELSE @,
                              !.UpdatedAt = now]
                conflicts == FindConflicts(events, stamped)
            IN  IF err # "nil"
                THEN /\ ret' = CalRet("invalid event", {})
                     /\ UNCHANGED events
                ELSE IF Cardinality(conflicts) > 0
                THEN /\ ret' = CalRet("event conflicts with existing events", {})
                     /\ UNCHANGED events
                ELSE /\ events' = Put(events, stamped.ID, stamped)
                     /\ ret' = CalRet("nil", {})

\* UpdateEvent(req.event) at time now.
UpdateEvent(now) ==
    /\ Serving("UpdateEvent")
    /\ UNCHANGED <<taskVars, req>>
    /\ IF req.event = NilEvent
       THEN /\ ret' = CalRet("event cannot be nil", {})
            /\ UNCHANGED events
       ELSE IF req.event.ID = ""
       THEN /\ ret' = CalRet("event ID is required for update", {})
            /\ UNCHANGED events
       ELSE IF req.event.ID \notin DOMAIN events
       THEN /\ ret' = CalRet("not found", {})
            /\ UNCHANGED events
       ELSE IF validateEvent(req.event) # "nil"
       THEN /\ ret' = CalRet("invalid event", {})
            /\ UNCHANGED events
       ELSE /\ events' = Put(events, req.event.ID, [req.event EXCEPT !.UpdatedAt = now])
            /\ ret' = CalRet("nil", {})

\* As RemoveEvent, without the check that the event exists.
RemoveEventWithoutExistsCheck ==
    /\ Serving("RemoveEvent")
    /\ UNCHANGED <<taskVars, req>>
    /\ IF req.id = ""
       THEN /\ ret' = CalRet("event ID is required", {})
            /\ UNCHANGED events
       ELSE /\ events' = Delete(events, req.id)
            /\ ret' = CalRet("nil", {})

\* RemoveEvent(req.id).
RemoveEvent ==
    /\ Serving("RemoveEvent")
    /\ UNCHANGED <<taskVars, req>>
    /\ IF req.id = ""
       THEN /\ ret' = CalRet("event ID is required", {})
            /\ UNCHANGED events
       ELSE IF req.id \notin DOMAIN events
       THEN /\ ret' = CalRet("not found", {})
            /\ UNCHANGED events
       ELSE /\ events' = Delete(events, req.id)
            /\ ret' = CalRet("nil", {})

\* FindConflicts(req.event): the store is read, the conflicts returned.
FindConflictsCall ==
    /\ Serving("FindConflicts")
    /\ UNCHANGED <<taskVars, req>>
    /\ ret' = CalRet("nil", FindConflicts(events, req.event))
    /\ UNCHANGED events

\* uuid.New() is called for an event without ID only and returns an unused ID.
NewUUIDs ==
    IF req.op = "AddEvent" /\ req.event.ID = "" THEN UUIDs \ DOMAIN events ELSE {""}

CalRequests ==
    {[op |-> o, event |-> e] : o \in {"AddEvent", "UpdateEvent"},
                              e \in EventInputs \cup {NilEvent}}
    \cup {[op |-> "RemoveEvent", id |-> i] : i \in CallerIDs}
    \cup {[op |-> "FindConflicts", event |-> e] : e \in TimedEvents}

CalCall == req = NoReq /\ \E r \in CalRequests : Call(r)

\* NewCalendar(), no call being made; the task store is left aside.
CalInit ==
    /\ events = << >>
    /\ req = NoReq
    /\ ret = Pending
    /\ tasks = << >>
    /\ prereqs = {}
    /\ budgets = << >>
    /\ loop = NoLoop
    /\ goroutines = NoGoroutines
    /\ mutex = Unlocked

CalNext ==
    \/ CalCall
    \/ \E now \in Clock : \E uuid \in NewUUIDs : AddEvent(now, uuid)
    \/ \E now \in Clock : UpdateEvent(now)
    \/ RemoveEvent
    \/ FindConflictsCall
    \/ Return

SpecCal == CalInit /\ [][CalNext]_vars

(***************************************************************************)
(* Calendar: claims                                                        *)
(***************************************************************************)
\* The overlap of two time intervals as the specification states it.
Overlapping(a, b) == a.StartTime < b.EndTime /\ b.StartTime < a.EndTime

\* The stored events other than event (by ID) whose interval overlaps event's.
OverlappedBy(event) ==
    {id \in DOMAIN events : events[id].ID # event.ID /\ Overlapping(event, events[id])}

\* C1: in every state reached by AddEvent, UpdateEvent and RemoveEvent calls, no
\* two stored events with different IDs have overlapping time intervals.
C1_StoreOverlapFree ==
    \A a \in DOMAIN events, b \in DOMAIN events :
        events[a].ID # events[b].ID => ~Overlapping(events[a], events[b])

\* C2: AddEvent of a valid event returns an error and leaves the stored events
\* unchanged whenever a stored event with a different ID overlaps the new event;
\* it changes the store only when no stored event conflicts, and then returns nil.
C2_AddEventRejectsConflicts ==
    [][(Serving("AddEvent") /\ req.event # NilEvent /\ validateEvent(req.event) = "nil")
         => /\ OverlappedBy(req.event) # {} => (ret'.err # "nil" /\ events' = events)
            /\ events' # events => (OverlappedBy(req.event) = {} /\ ret'.err = "nil")]_vars

\* C2 witness: AddEvent of a valid event has returned the conflict error while a
\* stored event with another ID overlaps it.
C2_Witness ==
    /\ req.op = "AddEvent" /\ ret # Pending
    /\ req.event # NilEvent /\ validateEvent(req.event) = "nil"
    /\ OverlappedBy(req.event) # {}
    /\ ret.err = "event conflicts with existing events"

\* C3: FindConflicts(e) returns exactly the stored events whose ID differs from
\* e's and whose interval overlaps e's (e.start < other.end and other.start <
\* e.end); events that only touch at a boundary never conflict, and events that
\* share an interval of positive length always do.
C3_FindConflictsExact ==
    (req.op = "FindConflicts" /\ ret # Pending) =>
        /\ ret.ids = OverlappedBy(req.event)
        /\ \A id \in DOMAIN events :
             /\ (events[id].EndTime = req.event.StartTime
                   \/ req.event.EndTime = events[id].StartTime)
                => id \notin ret.ids
             /\ (\E x \in Times, y \in Times :
                    /\ x < y
                    /\ events[id].StartTime <= x /\ y <= events[id].EndTime
                    /\ req.event.StartTime <= x /\ y <= req.event.EndTime)
                /\ events[id].ID # req.event.ID
                => id \in ret.ids

\* C3 witness: FindConflicts has returned one stored event as a conflict and has
\* left out another one, which ends exactly when the queried event starts.
C3_Witness ==
    /\ req.op = "FindConflicts" /\ ret # Pending
    /\ ret.ids # {}
    /\ \E id \in DOMAIN events \ ret.ids :
         /\ events[id].ID # req.event.ID
         /\ events[id].StartTime < events[id].EndTime
         /\ events[id].EndTime = req.event.StartTime
         /\ req.event.StartTime < req.event.EndTime

(***************************************************************************)
(* models: the cost model                                                  *)
(***************************************************************************)
\* int(x) of the float64 x = n / d (d > 0): Go truncates toward zero.
TruncDiv(n, d) == IF n >= 0 THEN n \div d ELSE -((-n) \div d)

\* The three switch statements of CalculateMoneyCost, each multiplier in tenths;
\* a level no case names leaves the multiplier at its initial 1.0.
energyMultiplier(level) ==
    CASE level = 1 -> 8 [] level = 2 -> 10 [] level = 3 -> 15 [] OTHER -> 10

difficultyMultiplier(level) ==
    CASE level = 1 -> 9 [] level = 2 -> 10 [] level = 3 -> 13 [] OTHER -> 10

priorityMultiplier(level) ==
    CASE level = 1 -> 8 [] level = 2 -> 10 [] level = 3 -> 12 [] OTHER -> 10

\* As CalculateMoneyCost, with the priority multiplier left out.
CalculateMoneyCostNoPriority(t) ==
    TruncDiv(t.EstimatedDurationMins * energyMultiplier(t.EnergyLevel)
                 * difficultyMultiplier(t.Difficulty) * 10, 1000)

\* As CalculateMoneyCost, with the result narrowed to a signed 8-bit integer.
CalculateMoneyCostInt8(t) ==
    LET c == TruncDiv(t.EstimatedDurationMins * energyMultiplier(t.EnergyLevel)
                          * difficultyMultiplier(t.Difficulty)
                          * priorityMultiplier(t.Priority), 1000)
    IN  ((c + 128) % 256) - 128

\* CalculateMoneyCost: int(float64(baseCost) * energy * difficulty * priority).
\* The product is taken exactly, in thousandths; for durations up to 300000
\* minutes the float64 product, rounded after each multiplication, truncates to
\* the same integer.
CalculateMoneyCost(t) ==
    LET baseCost == t.EstimatedDurationMins
        cost == baseCost * energyMultiplier(t.EnergyLevel)
                    * difficultyMultiplier(t.Difficulty)
                    * priorityMultiplier(t.Priority)
    IN  TruncDiv(cost, 1000)

CostDurations == {-7, -1} \cup 0..MaxDuration
Ordinals == 0..MaxOrdinal

CostTask(duration, energy, difficulty, priority) ==
    [EstimatedDurationMins |-> duration, EnergyLevel |-> energy,
     Difficulty |-> difficulty, Priority |-> priority]

CostRequests ==
    {[op |-> "CalculateMoneyCost", task |-> CostTask(d, e, f, p)] :
        d \in CostDurations, e \in Ordinals, f \in Ordinals, p \in Ordinals}

CostCall == req = NoReq /\ \E r \in CostRequests : Call(r)

\* A call of t.CalculateMoneyCost() on the task req.task.
CalculateMoneyCostCall ==
    /\ Serving("CalculateMoneyCost")
    /\ ret' = [out |-> CalculateMoneyCost(req.task)]
    /\ UNCHANGED <<events, taskVars, req>>

\* The cost model on its own: no store is used.
CostInit ==
    /\ events = << >>
    /\ req = NoReq
    /\ ret = Pending
    /\ tasks = << >>
    /\ prereqs = {}
    /\ budgets = << >>
    /\ loop = NoLoop
    /\ goroutines = NoGoroutines
    /\ mutex = Unlocked

CostNext ==
    \/ CostCall
    \/ CalculateMoneyCostCall
    \/ Return

SpecCost == CostInit /\ [][CostNext]_vars

(***************************************************************************)
(* The cost model: claims                                                  *)
(***************************************************************************)
\* The factors of the specification's formula, in tenths.
EnergyFactor(o) == IF o = 1 THEN 8 ELSE IF o = 3 THEN 15 ELSE 10
DifficultyFactor(o) == IF o = 1 THEN 9 ELSE IF o = 3 THEN 13 ELSE 10
PriorityFactor(o) == IF o = 1 THEN 8 ELSE IF o = 3 THEN 12 ELSE 10

CostDone == req.op = "CalculateMoneyCost" /\ ret # Pending

\* C5: for every duration >= 0 and all ordinals, CalculateMoneyCost returns
\* floor(duration x energyFactor x difficultyFactor x priorityFactor), the
\* factors being 0.8/1.0/1.5, 0.9/1.0/1.3 and 0.8/1.0/1.2 for ordinals 1/2/3 and
\* 1.0 for any other ordinal; cost(60,2,2,2) = 60 and cost(60,3,3,3) = 140.
C5_CostIsFloorOfProduct ==
    (CostDone /\ req.task.EstimatedDurationMins >= 0) =>
        LET t == req.task
            product == t.EstimatedDurationMins * EnergyFactor(t.EnergyLevel)
                          * DifficultyFactor(t.Difficulty) * PriorityFactor(t.Priority)
        IN  /\ 1000 * ret.out <= product
            /\ product < 1000 * (ret.out + 1)
            /\ t = CostTask(60, 2, 2, 2) => ret.out = 60
            /\ t = CostTask(60, 3, 3, 3) => ret.out = 140

\* C5 witness: the cost of a 60 minute task of high energy, difficulty and
\* priority has been computed, and is not the duration itself.
C5_Witness ==
    /\ CostDone
    /\ req.task = CostTask(60, 3, 3, 3)
    /\ ret.out = 140

\* C6: for fixed energy, difficulty and priority in {1,2,3} the cost is
\* monotonically non-decreasing in the duration: no shorter task costs more.
C6_CostMonotoneInDuration ==
    (CostDone /\ req.task.EnergyLevel \in 1..3 /\ req.task.Difficulty \in 1..3
              /\ req.task.Priority \in 1..3) =>
        \A d1 \in CostDurations :
            d1 <= req.task.EstimatedDurationMins =>
                CalculateMoneyCost([req.task EXCEPT !.EstimatedDurationMins = d1]) <= ret.out

\* C6 witness: a cost has been computed that is strictly higher than the cost of
\* a shorter task with the same levels.
C6_Witness ==
    /\ CostDone
    /\ req.task.EnergyLevel \in 1..3 /\ req.task.Difficulty \in 1..3
    /\ req.task.Priority \in 1..3
    /\ \E d1 \in CostDurations :
         /\ 0 < d1 /\ d1 < req.task.EstimatedDurationMins
         /\ CalculateMoneyCost([req.task EXCEPT !.EstimatedDurationMins = d1]) < ret.out

(***************************************************************************)
(* models: task status, IsBlocked                                          *)
(***************************************************************************)
StatusPending == "pending"
StatusInProgress == "in_progress"
StatusDone == "done"
StatusBlocked == "blocked"

\* A row of the tasks table; 0 stands for NULL in ParentID, Deadline and
\* CompletedAt. The columns no modelled operation reads (description, tags,
\* task type, event fields, radar position, created and updated times) are
\* left out.
TaskRow(id, title, parentID, duration, deadline, priority, status, energy, difficulty, moneyCost, completedAt) ==
    [ID |-> id, Title |-> title, ParentID |-> parentID,
     EstimatedDurationMins |-> duration, Deadline |-> deadline,
     Priority |-> priority, Status |-> status, EnergyLevel |-> energy,
     Difficulty |-> difficulty, MoneyCost |-> moneyCost,
     CompletedAt |-> completedAt]

\* As IsBlocked, but taking only a pending prerequisite as incomplete.
RECURSIVE IsBlockedByPending(_)
IsBlockedByPending(prerequisites) ==
    IF prerequisites = << >> THEN FALSE
    ELSE IF Head(prerequisites).Status = StatusPending THEN TRUE
    ELSE IsBlockedByPending(Tail(prerequisites))

\* The loop of Task.IsBlocked over t.Prerequisites.
RECURSIVE IsBlockedLoop(_)
IsBlockedLoop(prerequisites) ==
    IF prerequisites = << >> THEN FALSE
    ELSE IF Head(prerequisites).Status # StatusDone THEN TRUE
    ELSE IsBlockedLoop(Tail(prerequisites))

\* Task.IsBlocked
IsBlocked(t) == IsBlockedLoop(t.Prerequisites)

(***************************************************************************)
(* database: the store                                                     *)
(***************************************************************************)
\* The rows insertSampleData writes: all pending, without parent, deadline or
\* completion time, and with the money cost the statement spells out.
SampleRow(id, title, duration, priority, energy, difficulty, moneyCost) ==
    TaskRow(id, title, 0, duration, 0, priority, StatusPending, energy,
            difficulty, moneyCost, 0)

SampleTasks ==
    << SampleRow(1, "Morning Coffee & Journal", 15, 1, 1, 1, 15),
       SampleRow(2, "Write Project Draft", 120, 3, 3, 3, 180),
       SampleRow(3, "Yoga Class", 45, 2, 2, 1, 45),
       SampleRow(4, "Call Landlord", 30, 3, 2, 2, 60),
       SampleRow(5, "Grocery Shopping", 60, 2, 2, 2, 60),
       SampleRow(6, "Meal Prep", 90, 2, 3, 2, 90),
       SampleRow(7, "Team Meeting", 60, 2, 2, 1, 60),
       SampleRow(8, "Concert Planning", 30, 1, 1, 1, 30) >>

SamplePrerequisites == {<<6, 5>>, <<2, 1>>}

\* db.CreateTask: the row it inserts for the request r; AUTOINCREMENT gives it
\* the next id.
CreateTaskRow(rows, r) ==
    LET task == TaskRow(Len(rows) + 1, r.Title, r.ParentID, r.EstimatedDurationMins,
                        r.Deadline, r.Priority, StatusPending, r.EnergyLevel,
                        r.Difficulty, 0, 0)
    IN  [task EXCEPT !.MoneyCost = CalculateMoneyCost(task)]

\* db.UpdateTaskStatus: the error it returns. Exec reports no error when the
\* UPDATE matches no row, and the rows affected are not looked at.
UpdateTaskStatusErr(rows, id, status) == "nil"

\* As UpdateTaskStatusRows, but leaving completed_at alone when the new status
\* is not done.
UpdateTaskStatusRowsKeepingCompletedAt(rows, id, status, now) ==
    [i \in DOMAIN rows |->
        IF rows[i].ID = id
        THEN [rows[i] EXCEPT !.Status = status,
                             !.CompletedAt = IF status = StatusDone THEN now ELSE @]
        ELSE rows[i]]

\* db.UpdateTaskStatus: the UPDATE sets status and completed_at of the row with
\* that id, and of no row when there is none; it returns no error either way.
UpdateTaskStatusRows(rows, id, status, now) ==
    LET completedAt == IF status = StatusDone THEN now ELSE 0
    IN  [i \in DOMAIN rows |->
            IF rows[i].ID = id
            THEN [rows[i] EXCEPT !.Status = status, !.CompletedAt = completedAt]
            ELSE rows[i]]

\* The ids in ids in ascending order.
RECURSIVE AscendingSeq(_)
AscendingSeq(ids) ==
    IF ids = {} THEN << >>
    ELSE LET m == CHOOSE i \in ids : \A j \in ids : i <= j
         IN  <<m>> \o AscendingSeq(ids \ {m})

\* loadTaskPrerequisites: the rows of tasks joined to task_prerequisites on
\* t.id = tp.prerequisite_task_id, for tp.task_id = id. SQL leaves the order of
\* the rows open; they are taken by ascending id.
loadTaskPrerequisites(rows, edges, id) ==
    LET joined == {i \in DOMAIN rows :
                     \E tp \in edges : tp[1] = id /\ rows[i].ID = tp[2]}
        order == AscendingSeq(joined)
    IN  [k \in 1..Len(order) |-> rows[order[k]]]

\* What db.GetTask and db.GetAllTasks make of a row: the task with its
\* prerequisites loaded.
LoadTask(rows, edges, row) ==
    [ID |-> row.ID, Title |-> row.Title, ParentID |-> row.ParentID,
     EstimatedDurationMins |-> row.EstimatedDurationMins, Deadline |-> row.Deadline,
     Priority |-> row.Priority, Status |-> row.Status, EnergyLevel |-> row.EnergyLevel,
     Difficulty |-> row.Difficulty, MoneyCost |-> row.MoneyCost,
     CompletedAt |-> row.CompletedAt,
     Prerequisites |-> loadTaskPrerequisites(rows, edges, row.ID)]

\* ORDER BY priority DESC, deadline ASC: row a is placed before row b. SQLite
\* takes NULL (0 here) as smaller than any value; rows equal in both keys are
\* taken by ascending id.
OrderedBefore(a, b) ==
    \/ a.Priority > b.Priority
    \/ a.Priority = b.Priority /\ a.Deadline < b.Deadline
    \/ a.Priority = b.Priority /\ a.Deadline = b.Deadline /\ a.ID < b.ID

RECURSIVE OrderRows(_, _)
OrderRows(rows, ids) ==
    IF ids = {} THEN << >>
    ELSE LET first == CHOOSE i \in ids :
                        \A j \in ids \ {i} : OrderedBefore(rows[i], rows[j])
         IN  <<first>> \o OrderRows(rows, ids \ {first})

\* db.GetAllTasks
GetAllTasks(rows, edges) ==
    LET order == OrderRows(rows, DOMAIN rows)
    IN  [k \in 1..Len(order) |-> LoadTask(rows, edges, rows[order[k]])]

\* date.Format("2006-01-02"): the day a time falls on.
DateOf(t) == t \div 24

\* A row of daily_budgets.
DailyBudget(total, spent) == [TotalBudgetCoins |-> total, SpentCoins |-> spent]

\* db.GetDailyBudget: the table after the call, in which the day's row exists.
GetDailyBudgetRows(rows, date) ==
    IF date \in DOMAIN rows THEN rows
    ELSE [d \in DOMAIN rows \cup {date} |->
            IF d = date THEN DailyBudget(500, 0) ELSE rows[d]]

\* db.GetDailyBudget: the budget it returns.
GetDailyBudget(rows, date) == GetDailyBudgetRows(rows, date)[date]

\* db.GetTask: the error it returns, "nil" when the row exists.
GetTaskErr(rows, id) ==
    IF \E i \in DOMAIN rows : rows[i].ID = id THEN "nil"
    ELSE "failed to get task"

\* db.GetTask: the task with that id, prerequisites loaded.
GetTask(rows, edges, id) ==
    LoadTask(rows, edges, rows[CHOOSE i \in DOMAIN rows : rows[i].ID = id])

(***************************************************************************)
(* handlers                                                                *)
(***************************************************************************)
\* As SpentCoins, but counting pending tasks only.
RECURSIVE SpentCoinsPendingOnly(_)
SpentCoinsPendingOnly(taskList) ==
    IF taskList = << >> THEN 0
    ELSE (IF Head(taskList).Status = StatusPending
          THEN Head(taskList).MoneyCost ELSE 0)
         + SpentCoinsPendingOnly(Tail(taskList))

\* As SpentCoins, but leaving out done tasks only.
RECURSIVE SpentCoinsNotDone(_)
SpentCoinsNotDone(taskList) ==
    IF taskList = << >> THEN 0
    ELSE (IF Head(taskList).Status # StatusDone
          THEN Head(taskList).MoneyCost ELSE 0)
         + SpentCoinsNotDone(Tail(taskList))

\* The loop of Dashboard and of GetBudgetWidget that adds up spentCoins.
RECURSIVE SpentCoins(_)
SpentCoins(taskList) ==
    IF taskList = << >> THEN 0
    ELSE (IF Head(taskList).Status = StatusPending
             \/ Head(taskList).Status = StatusInProgress
          THEN Head(taskList).MoneyCost ELSE 0)
         + SpentCoins(Tail(taskList))

\* The answer of a handler: the status code and what it renders or encodes.
Response(code, body) == [code |-> code, body |-> body]

\* Dashboard
Dashboard(now) ==
    /\ Serving("Dashboard")
    /\ LET taskList == GetAllTasks(tasks, prereqs)
           today == DateOf(now)
           budget == GetDailyBudget(budgets, today)
       IN  /\ budgets' = GetDailyBudgetRows(budgets, today)
           /\ ret' = Response(200,
                       [Tasks |-> taskList,
                        Budget |-> [budget EXCEPT !.SpentCoins = SpentCoins(taskList)]])
    /\ UNCHANGED <<events, tasks, prereqs, req, loop, goroutines, mutex>>

\* GetBudgetWidget
GetBudgetWidget(now) ==
    /\ Serving("GetBudgetWidget")
    /\ LET today == DateOf(now)
           budget == GetDailyBudget(budgets, today)
           taskList == GetAllTasks(tasks, prereqs)
       IN  /\ budgets' = GetDailyBudgetRows(budgets, today)
           /\ ret' = Response(200,
                       [Budget |-> [budget EXCEPT !.SpentCoins = SpentCoins(taskList)]])
    /\ UNCHANGED <<events, tasks, prereqs, req, loop, goroutines, mutex>>

\* CreateTaskAPI: the decoded body goes to db.CreateTask as it is.
CreateTaskAPI ==
    /\ Serving("CreateTaskAPI")
    /\ LET task == CreateTaskRow(tasks, req.body)
       IN  /\ tasks' = Append(tasks, task)
           /\ ret' = Response(201, [Task |-> task])
    /\ UNCHANGED <<events, prereqs, budgets, req, loop, goroutines, mutex>>

\* The form of CreateTask: a numeric field that is 0 (or not a number, which
\* Atoi also turns into 0) takes its default.
FormDefault(value, default) == IF value = 0 THEN default ELSE value

\* CreateTask (POST)
CreateTask ==
    /\ Serving("CreateTask")
    /\ LET body == [Title |-> req.form.title, ParentID |-> 0, Deadline |-> 0,
                    EstimatedDurationMins |-> FormDefault(req.form.duration, 30),
                    Priority |-> FormDefault(req.form.priority, 2),
                    EnergyLevel |-> FormDefault(req.form.energy, 2),
                    Difficulty |-> FormDefault(req.form.difficulty, 2)]
           task == CreateTaskRow(tasks, body)
       IN  /\ tasks' = Append(tasks, task)
           /\ ret' = Response(200, [Task |-> task])
    /\ UNCHANGED <<events, prereqs, budgets, req, loop, goroutines, mutex>>

\* UpdateTaskStatus: req.id is what Atoi makes of the path variable.
UpdateTaskStatus(now) ==
    /\ Serving("UpdateTaskStatus")
    /\ IF req.id.err
       THEN /\ ret' = Response(400, "Invalid task ID")
            /\ UNCHANGED tasks
       ELSE IF req.status = ""
       THEN /\ ret' = Response(400, "Status is required")
            /\ UNCHANGED tasks
       ELSE IF UpdateTaskStatusErr(tasks, req.id.n, req.status) # "nil"
       THEN /\ ret' = Response(500, "Failed to update task")
            /\ UNCHANGED tasks
       ELSE LET updated == UpdateTaskStatusRows(tasks, req.id.n, req.status, now)
            IN  /\ tasks' = updated
                /\ ret' = IF GetTaskErr(updated, req.id.n) # "nil"
                          THEN Response(500, "Failed to get task")
                          ELSE Response(200, [Task |-> GetTask(updated, prereqs, req.id.n)])
    /\ UNCHANGED <<events, prereqs, budgets, req, loop, goroutines, mutex>>

\* db.UpdateTaskStatus, called on the store directly.
DBUpdateTaskStatus(now) ==
    /\ Serving("DB.UpdateTaskStatus")
    /\ tasks' = UpdateTaskStatusRows(tasks, req.id, req.status, now)
    /\ ret' = [err |-> UpdateTaskStatusErr(tasks, req.id, req.status)]
    /\ UNCHANGED <<events, prereqs, budgets, req, loop, goroutines, mutex>>

\* GetTaskDetails
GetTaskDetails ==
    /\ Serving("GetTaskDetails")
    /\ ret' = IF req.id.err THEN Response(400, "Invalid task ID")
              ELSE IF GetTaskErr(tasks, req.id.n) # "nil"
              THEN Response(500, "Failed to get task")
              ELSE Response(200, [Task |-> GetTask(tasks, prereqs, req.id.n)])
    /\ UNCHANGED <<events, taskVars, req>>

\* insertSampleData, as run when the program starts again on its database
\* file: INSERT OR REPLACE puts rows 1..8 and the two prerequisite rows back
\* and leaves every other row alone.
insertSampleData ==
    /\ req = NoReq
    /\ tasks' = [i \in DOMAIN tasks |->
                   IF i <= Len(SampleTasks) THEN SampleTasks[i] ELSE tasks[i]]
    /\ prereqs' = prereqs \cup SamplePrerequisites
    /\ UNCHANGED <<events, budgets, req, ret, loop, goroutines, mutex>>

\* What Atoi makes of a path variable.
Atoi(n, err) == [n |-> n, err |-> err]

PathIDs == {Atoi(1, FALSE), Atoi(2, FALSE), Atoi(5, FALSE), Atoi(6, FALSE),
            Atoi(9, FALSE), Atoi(0, TRUE)}

StatusInputs ==
    {"", StatusPending, StatusInProgress, StatusDone, StatusBlocked, "archived"}

\* The ids whose status the requests change: a sample prerequisite (5), the
\* task that depends on it (6) and the first created task (9).
UpdateIDs == {Atoi(5, FALSE), Atoi(6, FALSE), Atoi(9, FALSE), Atoi(0, TRUE)}

CreateTaskRequests ==
    { [Title |-> "t", ParentID |-> 0, Deadline |-> 0, EstimatedDurationMins |-> 60,
       Priority |-> 3, EnergyLevel |-> 3, Difficulty |-> 3],
      [Title |-> "", ParentID |-> 12, Deadline |-> 2, EstimatedDurationMins |-> -7,
       Priority |-> 3, EnergyLevel |-> 1, Difficulty |-> 0] }

CreateTaskForms ==
    { [title |-> "f", duration |-> 0, priority |-> 0, energy |-> 0, difficulty |-> 0],
      [title |-> "", duration |-> -5, priority |-> 1, energy |-> 3, difficulty |-> 2] }

TaskRequests ==
    {[op |-> "Dashboard"], [op |-> "GetBudgetWidget"]}
    \cup {[op |-> "CreateTaskAPI", body |-> b] : b \in CreateTaskRequests}
    \cup {[op |-> "CreateTask", form |-> f] : f \in CreateTaskForms}
    \cup {[op |-> "UpdateTaskStatus", id |-> i, status |-> st] :
            i \in UpdateIDs, st \in StatusInputs}
    \cup {[op |-> "GetTaskDetails", id |-> i] : i \in PathIDs}
    \cup {[op |-> "DB.UpdateTaskStatus", id |-> i, status |-> st] :
            i \in {5, 9}, st \in {StatusDone, StatusPending}}

\* A client sends a request; no more than MaxCreated tasks are created.
TaskCall ==
    /\ req = NoReq
    /\ \E r \in TaskRequests :
         /\ r.op \in {"CreateTaskAPI", "CreateTask"}
              => Len(tasks) < Len(SampleTasks) + MaxCreated
         /\ Call(r)

\* The store as NewDB leaves it: schema created, sample data inserted.
TaskInit ==
    /\ events = << >>
    /\ tasks = SampleTasks
    /\ prereqs = SamplePrerequisites
    /\ budgets = << >>
    /\ loop = NoLoop
    /\ goroutines = NoGoroutines
    /\ mutex = Unlocked
    /\ req = NoReq
    /\ ret = Pending

TaskNext ==
    \/ TaskCall
    \/ \E now \in Clock : Dashboard(now)
    \/ \E now \in Clock : GetBudgetWidget(now)
    \/ CreateTaskAPI
    \/ CreateTask
    \/ \E now \in Clock : UpdateTaskStatus(now)
    \/ \E now \in Clock : DBUpdateTaskStatus(now)
    \/ GetTaskDetails
    \/ insertSampleData
    \/ Return

SpecTask == TaskInit /\ [][TaskNext]_vars

(***************************************************************************)
(* Task store claims                                                       *)
(***************************************************************************)
\* The stored task with that id has a prerequisite edge to a stored task whose
\* status is not done.
HasIncompletePrerequisite(id) ==
    \E edge \in prereqs :
        /\ edge[1] = id
        /\ \E i \in DOMAIN tasks :
             tasks[i].ID = edge[2] /\ tasks[i].Status # StatusDone

\* A handler has answered with one task loaded from the store.
TaskLoaded ==
    /\ req.op \in {"GetTaskDetails", "UpdateTaskStatus"}
    /\ ret # Pending
    /\ ret.code = 200

RECURSIVE ActiveCost(_)
ActiveCost(ids) ==
    IF ids = {} THEN 0
    ELSE LET i == CHOOSE j \in ids : TRUE
         IN  (IF tasks[i].Status \in {StatusPending, StatusInProgress}
              THEN tasks[i].MoneyCost ELSE 0) + ActiveCost(ids \ {i})

\* The dashboard or the budget widget has answered.
BudgetReported ==
    /\ req.op \in {"Dashboard", "GetBudgetWidget"}
    /\ ret # Pending

\* C7: the spent value the dashboard and the budget widget report equals the
\* sum of MoneyCost over exactly the stored tasks that are pending or in
\* progress, whatever spent value the day's budget row holds.
C7_SpentIsActiveCost ==
    BudgetReported => ret.body.Budget.SpentCoins = ActiveCost(DOMAIN tasks)

\* C7 witness: a report made while one task is done, one is blocked and a
\* created task is in progress; the reported value differs from the one
\* stored in the day's budget row.
C7_Witness ==
    /\ BudgetReported
    /\ tasks[5].Status = StatusDone
    /\ tasks[6].Status = StatusBlocked
    /\ Len(tasks) > Len(SampleTasks)
    /\ tasks[9].Status = StatusInProgress
    /\ ret.body.Budget.SpentCoins = 540 - 60 - 90 + tasks[9].MoneyCost
    /\ \E d \in DOMAIN budgets : budgets[d].SpentCoins # ret.body.Budget.SpentCoins

(***************************************************************************)
(* calendar.go: GenerateRecurringEvents                                    *)
(*                                                                         *)
(* Times are hours since the zero time, 0001-01-01 00:00 UTC, of the       *)
(* proleptic Gregorian calendar the time package uses.                     *)
(***************************************************************************)
RecurrenceLimit == 1000

IsLeap(year) == year % 4 = 0 /\ (year % 100 # 0 \/ year % 400 = 0)

\* The days from the zero time to the start of a year.
DaysBeforeYear(year) ==
    365 * (year - 1) + (year - 1) \div 4 - (year - 1) \div 100 + (year - 1) \div 400

\* The days from the start of a year to the start of one of its months.
DaysBeforeMonth(year, month) ==
    <<0, 31, 59, 90, 120, 151, 181, 212, 243, 273, 304, 334>>[month]
    + (IF month > 2 /\ IsLeap(year) THEN 1 ELSE 0)

\* t.Date() and t.Clock(): the civil date and the hour of a time.
YearOf(t) ==
    LET day == t \div 24
        first == IF day >= 0 THEN day \div 366 + 1 ELSE day \div 365 + 1
        last == IF day >= 0 THEN day \div 365 + 1 ELSE day \div 366 + 1
    IN  CHOOSE year \in first..last :
            DaysBeforeYear(year) <= day /\ day < DaysBeforeYear(year + 1)

MonthOf(t) ==
    LET yday == t \div 24 - DaysBeforeYear(YearOf(t))
    IN  CHOOSE month \in 1..12 :
            /\ DaysBeforeMonth(YearOf(t), month) <= yday
            /\ month < 12 => yday < DaysBeforeMonth(YearOf(t), month + 1)

DayOf(t) ==
    t \div 24 - DaysBeforeYear(YearOf(t)) - DaysBeforeMonth(YearOf(t), MonthOf(t)) + 1

HourOf(t) == t % 24

\* time.Date: a month outside 1..12 carries into the year, and a day outside
\* the month carries into the following months.
Date(year, month, day, hour) ==
    LET months == month - 1
        y == year + months \div 12
        m == (months % 12) + 1
    IN  (DaysBeforeYear(y) + DaysBeforeMonth(y, m) + day - 1) * 24 + hour

\* t.AddDate(years, months, days)
AddDate(t, years, months, days) ==
    Date(YearOf(t) + years, MonthOf(t) + months, DayOf(t) + days, HourOf(t))

\* What GenerateRecurringEvents returns; a nil slice is the empty sequence.
Generated(instances, err) == [instances |-> instances, err |-> err]

\* The occurrence the loop body appends: a copy of the event with the derived
\* ID "<ID>-<count>" and the shifted times.
Instance(event, current, count) ==
    [event EXCEPT !.ID = event.ID \o "-" \o ToString(count),
                  !.StartTime = current,
                  !.EndTime = current + (event.EndTime - event.StartTime)]

\* As NextOccurrence, but with the daily interval passed to AddDate as years.
NextOccurrenceDailyAsYears(rule, current) ==
    CASE rule.Type = RecurrenceDaily -> AddDate(current, rule.Interval, 0, 0)
      [] rule.Type = RecurrenceWeekly -> AddDate(current, 0, 0, 7 * rule.Interval)
      [] rule.Type = RecurrenceMonthly -> AddDate(current, 0, rule.Interval, 0)
      [] rule.Type = RecurrenceYearly -> AddDate(current, rule.Interval, 0, 0)

\* As NextOccurrence, but with the weekly step a single day per interval.
NextOccurrenceWeeklyAsDaily(rule, current) ==
    CASE rule.Type = RecurrenceDaily -> AddDate(current, 0, 0, rule.Interval)
      [] rule.Type = RecurrenceWeekly -> AddDate(current, 0, 0, rule.Interval)
      [] rule.Type = RecurrenceMonthly -> AddDate(current, 0, rule.Interval, 0)
      [] rule.Type = RecurrenceYearly -> AddDate(current, rule.Interval, 0, 0)

\* The switch on the recurrence type: the start of the next occurrence, for
\* the four types it advances.
NextOccurrence(rule, current) ==
    CASE rule.Type = RecurrenceDaily -> AddDate(current, 0, 0, rule.Interval)
      [] rule.Type = RecurrenceWeekly -> AddDate(current, 0, 0, 7 * rule.Interval)
      [] rule.Type = RecurrenceMonthly -> AddDate(current, 0, rule.Interval, 0)
      [] rule.Type = RecurrenceYearly -> AddDate(current, rule.Interval, 0, 0)

\* The safety check at the end of the loop body.
TooMany(count) == count > RecurrenceLimit

\* As LoopPass, but counting only the passes that create an instance.
LoopPassCountingInstances(event, startDate, endDate, l) ==
    IF ~(Before(l.current, endDate) \/ Equal(l.current, endDate))
    THEN [pc |-> "return", result |-> Generated(l.instances, "nil")]
    ELSE IF event.Recurrence.EndDate # 0 /\ After(l.current, event.Recurrence.EndDate)
    THEN [pc |-> "return", result |-> Generated(l.instances, "nil")]
    ELSE IF event.Recurrence.Count > 0 /\ l.count >= event.Recurrence.Count
    THEN [pc |-> "return", result |-> Generated(l.instances, "nil")]
    ELSE LET inRange == (After(l.current, startDate) \/ Equal(l.current, startDate))
                        /\ Before(l.current, endDate)
             instances == IF inRange
                          THEN Append(l.instances, Instance(event, l.current, l.count))
                          ELSE l.instances
             count == IF inRange THEN l.count + 1 ELSE l.count
         IN  IF event.Recurrence.Type \notin {RecurrenceDaily, RecurrenceWeekly,
                                              RecurrenceMonthly, RecurrenceYearly}
             THEN [pc |-> "return",
                   result |-> Generated(<< >>, "unsupported recurrence type")]
             ELSE IF TooMany(count)
             THEN [pc |-> "return",
                   result |-> Generated(<< >>, "too many recurring instances")]
             ELSE [pc |-> "loop",
                   current |-> NextOccurrence(event.Recurrence, l.current),
                   count |-> count,
                   instances |-> instances]

\* What one pass through the for loop of GenerateRecurringEvents does with the
\* loop variables l: it leaves the loop and the function returns ("return"),
\* or it goes round again with the new values ("loop").
LoopPass(event, startDate, endDate, l) ==
    IF ~(Before(l.current, endDate) \/ Equal(l.current, endDate))
    THEN [pc |-> "return", result |-> Generated(l.instances, "nil")]
    ELSE IF event.Recurrence.EndDate # 0 /\ After(l.current, event.Recurrence.EndDate)
    THEN [pc |-> "return", result |-> Generated(l.instances, "nil")]
    ELSE IF event.Recurrence.Count > 0 /\ l.count >= event.Recurrence.Count
    THEN [pc |-> "return", result |-> Generated(l.instances, "nil")]
    ELSE LET instances ==
                 IF (After(l.current, startDate) \/ Equal(l.current, startDate))
                    /\ Before(l.current, endDate)
                 THEN Append(l.instances, Instance(event, l.current, l.count))
                 ELSE l.instances
         IN  IF event.Recurrence.Type \notin {RecurrenceDaily, RecurrenceWeekly,
                                              RecurrenceMonthly, RecurrenceYearly}
             THEN [pc |-> "return",
                   result |-> Generated(<< >>, "unsupported recurrence type")]
             ELSE IF TooMany(l.count + 1)
             THEN [pc |-> "return",
                   result |-> Generated(<< >>, "too many recurring instances")]
             ELSE [pc |-> "loop",
                   current |-> NextOccurrence(event.Recurrence, l.current),
                   count |-> l.count + 1,
                   instances |-> instances]

\* GenerateRecurringEvents up to its for loop: an event that does not recur is
\* returned as it is.
GenerateRecurringEvents ==
    /\ Serving("GenerateRecurringEvents")
    /\ loop = NoLoop
    /\ IF req.event.Recurrence.Type = RecurrenceNone
       THEN /\ ret' = Generated(<<req.event>>, "nil")
            /\ UNCHANGED loop
       ELSE /\ loop' = [pc |-> "loop", current |-> req.event.StartTime,
                        count |-> 0, instances |-> << >>]
            /\ UNCHANGED ret
    /\ UNCHANGED <<events, tasks, prereqs, budgets, req, goroutines, mutex>>

\* One pass through the for loop of GenerateRecurringEvents.
GenerateRecurringEventsLoop ==
    /\ Serving("GenerateRecurringEvents")
    /\ loop # NoLoop
    /\ LET pass == LoopPass(req.event, req.startDate, req.endDate, loop)
       IN  IF pass.pc = "return"
           THEN /\ ret' = pass.result
                /\ loop' = NoLoop
           ELSE /\ loop' = pass
                /\ UNCHANGED ret
    /\ UNCHANGED <<events, tasks, prereqs, budgets, req, goroutines, mutex>>

\* The time h hours into day d, day 0 being 0001-01-01.
At(d, h) == d * 24 + h

\* A two-hour event starting at 09:00 on the given day.
RecurEvent(day, rule) == Event("a", "t", At(day, 9), At(day, 11), rule, 0)

\* Rules that end a loop after a few passes in a short window.
ShortRules ==
    {Rule(type, k, 0, n, 0, 0) :
        type \in {RecurrenceDaily, RecurrenceWeekly}, k \in {1, 2}, n \in {0, 1, 3}}
    \cup {Rule(RecurrenceDaily, 0, 0, 3, 0, 0),
          Rule(RecurrenceDaily, 1, At(4, 12), 0, 0, 0),
          Rule(RecurrenceMonthly, 1, 0, 3, 0, 0),
          Rule(RecurrenceYearly, 1, 0, 2, 0, 0),
          Rule(RecurrenceCustom, 1, 0, 0, 1, 0),
          Rule(RecurrenceCustom, 1, 0, 2, 0, 15),
          NoRule, ZeroRule}

\* Windows of up to 40 days: one that ends before any event starts, one that
\* holds every occurrence of a short rule, one that starts and ends on an
\* occurrence, one that starts after the events of day 1.
ShortWindows ==
    {<<0, At(1, 0)>>, <<0, At(40, 0)>>, <<At(1, 9), At(3, 9)>>, <<At(2, 0), At(9, 0)>>}

\* A call of GenerateRecurringEvents.
RecurRequest(event, startDate, endDate) ==
    [op |-> "GenerateRecurringEvents", event |-> event,
     startDate |-> startDate, endDate |-> endDate]

\* Calls that reach the limit on the passes through the loop, or nearly:
\* counts at the limit and one above it, in a window that holds every
\* occurrence; no terminator, in a window that starts with the event of day 1
\* and is an hour wider than the limit in days; no terminator and a custom rule,
\* in a window wider than the limit that starts long after the event; an event
\* that starts two days before the end of a window wider than the limit; an
\* interval of 0, for an event before the window.
LongRequests ==
    {RecurRequest(RecurEvent(day, Rule(RecurrenceDaily, 1, 0, n, 0, 0)),
                  0, At(RecurrenceLimit + 3, 0)) :
        day \in 1..MaxStartDay, n \in {RecurrenceLimit, RecurrenceLimit + 1}}
    \cup
    {RecurRequest(RecurEvent(day, Rule(RecurrenceDaily, 1, 0, 0, 0, 0)),
                  At(1, 9), At(RecurrenceLimit + 1, 10)) : day \in 1..MaxStartDay}
    \cup
    {RecurRequest(RecurEvent(day, rule),
                  At(RecurrenceLimit - 4, 0), At(2 * RecurrenceLimit, 0)) :
        day \in 1..MaxStartDay,
        rule \in {Rule(RecurrenceDaily, 1, 0, 0, 0, 0),
                  Rule(RecurrenceCustom, 1, 0, 0, 1, 0)}}
    \cup
    {RecurRequest(RecurEvent(RecurrenceLimit - 1, Rule(RecurrenceDaily, 1, 0, 0, 0, 0)),
                  0, At(RecurrenceLimit + 1, 0)),
     RecurRequest(RecurEvent(1, Rule(RecurrenceDaily, 0, 0, 0, 0, 0)),
                  At(3, 0), At(40, 0))}

RecurRequests ==
    {RecurRequest(RecurEvent(day, rule), w[1], w[2]) :
        day \in 1..MaxStartDay, rule \in ShortRules, w \in ShortWindows}
    \cup LongRequests

RecurCall == req = NoReq /\ \E r \in RecurRequests : Call(r)

RecurInit ==
    /\ events = << >>
    /\ tasks = << >>
    /\ prereqs = {}
    /\ budgets = << >>
    /\ loop = NoLoop
    /\ goroutines = NoGoroutines
    /\ mutex = Unlocked
    /\ req = NoReq
    /\ ret = Pending

RecurNext ==
    \/ RecurCall
    \/ GenerateRecurringEvents
    \/ GenerateRecurringEventsLoop
    \/ Return

SpecRecur == RecurInit /\ [][RecurNext]_vars

(***************************************************************************)
(* Recurrence claims                                                       *)
(***************************************************************************)
\* GenerateRecurringEvents has returned.
Expanded == req.op = "GenerateRecurringEvents" /\ ret # Pending

\* The days between consecutive occurrences of a daily or weekly rule.
StepDays(rule) ==
    IF rule.Type = RecurrenceDaily THEN rule.Interval ELSE 7 * rule.Interval

\* The call was for a daily or weekly event with an occurrence count n > 0 and
\* no end date, over a window [startDate, endDate) that holds all n starts.
CountedInWindow ==
    /\ Expanded
    /\ req.event.Recurrence.Type \in {RecurrenceDaily, RecurrenceWeekly}
    /\ req.event.Recurrence.Count > 0
    /\ req.event.Recurrence.EndDate = 0
    /\ \A i \in 0..(req.event.Recurrence.Count - 1) :
         LET start == req.event.StartTime + i * StepDays(req.event.Recurrence) * 24
         IN  req.startDate <= start /\ start < req.endDate

\* The call returned exactly n instances, consecutive ones k (daily) or 7k
\* (weekly) days apart, each as long as the event.
ExactlyCountInstances ==
    /\ ret.err = "nil"
    /\ Len(ret.instances) = req.event.Recurrence.Count
    /\ \A i \in 1..(Len(ret.instances) - 1) :
         ret.instances[i + 1].StartTime - ret.instances[i].StartTime
            = StepDays(req.event.Recurrence) * 24
    /\ \A i \in 1..Len(ret.instances) :
         ret.instances[i].EndTime - ret.instances[i].StartTime
            = req.event.EndTime - req.event.StartTime

\* C8 as stated: for a daily or weekly event with interval k, count n > 0 and
\* no end date, a window that holds all n occurrence starts yields exactly n
\* instances, k or 7k days apart, each with the event's duration.
C8_CountedYieldsExactlyCount == CountedInWindow => ExactlyCountInstances

\* C8 amended: the same for a count n with 0 < n <= 1000, the limit on the
\* passes through the loop.
C8_CountedUpToLimitYieldsExactlyCount ==
    (CountedInWindow /\ req.event.Recurrence.Count <= RecurrenceLimit)
        => ExactlyCountInstances

\* C8 witness: a weekly event with interval 1 and count 3 has been expanded
\* into three instances.
C8_Witness ==
    /\ CountedInWindow
    /\ req.event.Recurrence.Type = RecurrenceWeekly
    /\ req.event.Recurrence.Interval = 1
    /\ req.event.Recurrence.Count = 3
    /\ Len(ret.instances) = 3
    /\ ret.instances[3].StartTime = req.event.StartTime + At(14, 0)

\* The call was for a daily event with interval 1, no end date and no count,
\* over a window more than 1000 days wide.
UnterminatedInWideWindow ==
    /\ Expanded
    /\ req.event.Recurrence.Type = RecurrenceDaily
    /\ req.event.Recurrence.Interval = 1
    /\ req.event.Recurrence.EndDate = 0
    /\ req.event.Recurrence.Count = 0
    /\ req.endDate - req.startDate > At(1000, 0)

\* The call failed with the recurrence-limit error and returned no instances.
LimitError ==
    /\ ret.err = "too many recurring instances"
    /\ ret.instances = << >>

\* C9 as stated: a daily event with interval 1 and no terminator, expanded
\* over a window wider than 1000 days, fails with the recurrence-limit error
\* and returns no instances.
C9_WideWindowFails == UnterminatedInWideWindow => LimitError

\* C9 amended: the same for an event that starts no later than the window.
C9_WideWindowFromStartFails ==
    (UnterminatedInWideWindow /\ req.event.StartTime <= req.startDate)
        => LimitError

\* C9 witness: such a call, for a window that starts long after the event, has
\* failed with the recurrence-limit error.
C9_Witness ==
    /\ UnterminatedInWideWindow
    /\ req.event.StartTime < req.startDate
    /\ req.startDate = At(RecurrenceLimit - 4, 0)
    /\ LimitError

\* C10: expanding an event whose recurrence type is custom fails with the
\* unsupported-recurrence error, whatever the window.
C10_CustomFails ==
    (Expanded /\ req.event.Recurrence.Type = RecurrenceCustom)
        => ret.err = "unsupported recurrence type"

\* C11: every instance GenerateRecurringEvents returns, for an event that
\* recurs or not and for every window, starts inside the window:
\* startDate <= start < endDate.
C11_InstancesStartInWindow ==
    Expanded =>
        \A i \in 1..Len(ret.instances) :
            /\ req.startDate <= ret.instances[i].StartTime
            /\ ret.instances[i].StartTime < req.endDate

(***************************************************************************)
(* Task store claims: creation and status                                  *)
(***************************************************************************)
\* A create request, through the JSON endpoint or the form, whose title is
\* empty or whose duration is negative, is about to be served.
ServingInvalidCreate ==
    \/ /\ Serving("CreateTaskAPI")
       /\ req.body.Title = "" \/ req.body.EstimatedDurationMins < 0
    \/ /\ Serving("CreateTask")
       /\ req.form.title = "" \/ req.form.duration < 0

\* C12: creating a task with an empty title or a negative duration, through
\* the JSON endpoint or the form (both hand the request to the store's
\* CreateTask), fails with an error answer and inserts no task.
C12_InvalidCreateRejected ==
    [][ServingInvalidCreate => (tasks' = tasks /\ ret'.code >= 400)]_vars

\* No stored task has the id.
UnknownID(id) == \A i \in DOMAIN tasks : tasks[i].ID # id

\* C14: setting the status of an id that no stored task has fails with a
\* not-found error and changes no task, both for the store's UpdateTaskStatus
\* and for the status endpoint, whose answer is then an error answer.
C14_UnknownIDNotFound ==
    [][/\ (Serving("DB.UpdateTaskStatus") /\ UnknownID(req.id))
            => (ret'.err # "nil" /\ tasks' = tasks)
       /\ (Serving("UpdateTaskStatus") /\ ~req.id.err /\ req.status # ""
             /\ UnknownID(req.id.n))
            => (ret'.code >= 400 /\ tasks' = tasks)]_vars

\* C15: after any sequence of task creations and status updates a stored task
\* has a completion time if and only if its status is done; a status update
\* to done has set it to the time of the update and a created task has none.
C15_CompletedAtIffDone ==
    /\ \A i \in DOMAIN tasks :
         tasks[i].CompletedAt # 0 <=> tasks[i].Status = StatusDone
    /\ (req.op = "UpdateTaskStatus" /\ ret # Pending /\ ret.code = 200
          /\ req.status = StatusDone)
         => tasks[req.id.n].CompletedAt \in Clock
    /\ (req.op \in {"CreateTaskAPI", "CreateTask"} /\ ret # Pending)
         => ret.body.Task.CompletedAt = 0

\* C15 witness: a status update has just taken a task away from done, so that
\* it has no completion time, while another task is done since time 2.
C15_Witness ==
    /\ req.op = "UpdateTaskStatus" /\ ret # Pending /\ ret.code = 200
    /\ req.id.n = 6 /\ req.status = StatusInProgress
    /\ tasks[6].CompletedAt = 0
    /\ tasks[5].Status = StatusDone /\ tasks[5].CompletedAt = 2
    /\ Len(tasks) > Len(SampleTasks) /\ tasks[9].CompletedAt = 0

\* C16: every stored task's status is one of pending, in_progress, done and
\* blocked, after any task creations and status updates.
C16_StatusIsOneOfFour ==
    \A i \in DOMAIN tasks :
        tasks[i].Status \in {StatusPending, StatusInProgress, StatusDone, StatusBlocked}

\* The task with that id has a parent that is no stored task.
DanglingParent(i) == tasks[i].ParentID # 0 /\ UnknownID(tasks[i].ParentID)

\* The ids reached from id by following parent_id up to n times.
RECURSIVE Ancestors(_, _)
Ancestors(id, n) ==
    IF n = 0 \/ id \notin DOMAIN tasks \/ tasks[id].ParentID = 0 THEN {}
    ELSE {tasks[id].ParentID} \cup Ancestors(tasks[id].ParentID, n - 1)

\* C17: the parent relation is a forest: every parent that is set is a stored
\* task, and no task is its own ancestor.
C17_ParentsFormForest ==
    \A i \in DOMAIN tasks :
        /\ ~DanglingParent(i)
        /\ tasks[i].ID \notin Ancestors(tasks[i].ID, Len(tasks))

(***************************************************************************)
(* handlers and database: updating a field of a task                       *)
(***************************************************************************)
\* The decoded "value" of the request body, an interface{}: a JSON number (a
\* float64, here in tenths) or a JSON string.
NumberValue(tenths) == [kind |-> "float64", tenths |-> tenths]
StringValue(str) == [kind |-> "string", str |-> str]

\* The task handleUpdateTaskField hands to UpdateTask: the task read by
\* GetTaskByID with the named field set when the value has the asserted type.
\* The description is not among the modelled columns.
SetTaskField(task, field, value) ==
    CASE field = "energy_level" /\ value.kind = "float64" ->
            [task EXCEPT !.EnergyLevel = TruncDiv(value.tenths, 10)]
      [] field = "difficulty" /\ value.kind = "float64" ->
            [task EXCEPT !.Difficulty = TruncDiv(value.tenths, 10)]
      [] field = "money_cost" /\ value.kind = "float64" ->
            [task EXCEPT !.MoneyCost = TruncDiv(value.tenths, 10)]
      [] OTHER -> task

\* db.UpdateTask: the UPDATE writes every column of the task, money_cost
\* included, to the row with its id.
UpdateTaskRows(rows, task) ==
    [i \in DOMAIN rows |-> IF rows[i].ID = task.ID THEN task ELSE rows[i]]

\* handleUpdateTaskField
handleUpdateTaskField ==
    /\ Serving("handleUpdateTaskField")
    /\ IF req.id.err
       THEN /\ ret' = Response(400, "Invalid task ID")
            /\ UNCHANGED tasks
       ELSE IF req.field = ""
       THEN /\ ret' = Response(400, "Field name required")
            /\ UNCHANGED tasks
       ELSE IF GetTaskErr(tasks, req.id.n) # "nil"
       THEN /\ ret' = Response(500, "sql: no rows in result set")
            /\ UNCHANGED tasks
       ELSE IF req.field \notin {"energy_level", "difficulty", "description", "money_cost"}
       THEN /\ ret' = Response(400, "Invalid field")
            /\ UNCHANGED tasks
       ELSE LET row == tasks[CHOOSE i \in DOMAIN tasks : tasks[i].ID = req.id.n]
                task == SetTaskField(row, req.field, req.value)
            IN  /\ tasks' = UpdateTaskRows(tasks, task)
                /\ ret' = Response(200, [Task |-> task])
    /\ UNCHANGED <<events, prereqs, budgets, req, loop, goroutines, mutex>>

\* The fields and values of the update requests.
FieldUpdates ==
    {<<"energy_level", NumberValue(30)>>, <<"energy_level", StringValue("3")>>,
     <<"difficulty", NumberValue(17)>>, <<"money_cost", NumberValue(30)>>,
     <<"description", StringValue("d")>>, <<"priority", NumberValue(30)>>,
     <<"", NumberValue(30)>>}

EditRequests ==
    {[op |-> "CreateTaskAPI", body |-> b] : b \in CreateTaskRequests}
    \cup {[op |-> "CreateTask", form |-> f] : f \in CreateTaskForms}
    \cup {[op |-> "handleUpdateTaskField", id |-> i, field |-> u[1], value |-> u[2]] :
            i \in {Atoi(5, FALSE), Atoi(9, FALSE), Atoi(0, TRUE)}, u \in FieldUpdates}
    \cup {[op |-> "GetTaskDetails", id |-> i] : i \in PathIDs}

EditCall ==
    /\ req = NoReq
    /\ \E r \in EditRequests :
         /\ r.op \in {"CreateTaskAPI", "CreateTask"}
              => Len(tasks) < Len(SampleTasks) + MaxCreated
         /\ Call(r)

\* Creating tasks and updating their fields.
EditNext ==
    \/ EditCall
    \/ CreateTaskAPI
    \/ CreateTask
    \/ handleUpdateTaskField
    \/ GetTaskDetails
    \/ Return

SpecEdit == TaskInit /\ [][EditNext]_vars

\* handleUpdateTaskField is about to write a row whose energy level or
\* difficulty differs from the stored one.
ServingScoringUpdate ==
    /\ Serving("handleUpdateTaskField")
    /\ ~req.id.err
    /\ GetTaskErr(tasks, req.id.n) = "nil"
    /\ req.field \in {"energy_level", "difficulty"}
    /\ SetTaskField(tasks[req.id.n], req.field, req.value) # tasks[req.id.n]

\* C13: after an update of a task that changes its duration, energy level,
\* difficulty or priority, the stored money cost of the task is what
\* CalculateMoneyCost gives for the new attributes.
C13_UpdateRecomputesCost ==
    [][ServingScoringUpdate =>
          tasks'[req.id.n].MoneyCost = CalculateMoneyCost(tasks'[req.id.n])]_vars

(***************************************************************************)
(* database: adding a row to task_prerequisites                            *)
(***************************************************************************)

\* The rows of task_prerequisites after INSERT OR REPLACE INTO
\* task_prerequisites (task_id, prerequisite_task_id) VALUES (task, prerequisite),
\* the one statement of the program that adds an edge. The table has
\* UNIQUE(task_id, prerequisite_task_id) and no CHECK: a row with the same pair
\* is replaced by the new one, and a pair of equal ids is a row like any other.
InsertOrReplacePrerequisite(edges, task, prerequisite) ==
    edges \cup {<<task, prerequisite>>}

\* The error of that statement: OR REPLACE resolves the UNIQUE conflict, and
\* the foreign keys are not enforced, so there is none.
InsertOrReplacePrerequisiteErr(edges, task, prerequisite) == "nil"

\* The statement run on the store.
InsertPrerequisite ==
    /\ Serving("InsertPrerequisite")
    /\ prereqs' = InsertOrReplacePrerequisite(prereqs, req.task, req.prerequisite)
    /\ ret' = [err |-> InsertOrReplacePrerequisiteErr(prereqs, req.task, req.prerequisite)]
    /\ UNCHANGED <<events, tasks, budgets, req, loop, goroutines, mutex>>

\* The edges added: one of the sample data again, one from a task to itself,
\* and two new ones.
EdgeInputs == {<<6, 5>>, <<3, 3>>, <<3, 1>>, <<6, 1>>}

EdgeRequests ==
    {[op |-> "InsertPrerequisite", task |-> edge[1], prerequisite |-> edge[2]] :
        edge \in EdgeInputs}
    \cup {[op |-> "DB.UpdateTaskStatus", id |-> i, status |-> st] :
            i \in {1, 5}, st \in {StatusDone, StatusPending}}
    \cup {[op |-> "GetTaskDetails", id |-> i] : i \in PathIDs}

EdgeCall ==
    /\ req = NoReq
    /\ \E r \in EdgeRequests : Call(r)

EdgeNext ==
    \/ EdgeCall
    \/ InsertPrerequisite
    \/ \E now \in Clock : DBUpdateTaskStatus(now)
    \/ GetTaskDetails
    \/ Return

SpecEdge == TaskInit /\ [][EdgeNext]_vars

\* C18: adding a prerequisite edge that is already stored fails with a
\* duplicate-edge error, adding an edge from a task to itself fails with a
\* self-reference error, and in both cases the stored edges stay as they are.
C18_DuplicateAndSelfEdgeRejected ==
    [][(/\ Serving("InsertPrerequisite")
        /\ \/ <<req.task, req.prerequisite>> \in prereqs
           \/ req.task = req.prerequisite)
        => (ret'.err # "nil" /\ prereqs' = prereqs)]_vars

\* C19: GetAllTasks returns the tasks by priority descending and, within one
\* priority, by deadline ascending, every task without a deadline after all
\* tasks of that priority that have one; read off the list the dashboard got.
C19_NoDeadlineSortsLast ==
    (req.op = "Dashboard" /\ ret # Pending) =>
        \A i, j \in 1..Len(ret.body.Tasks) :
            i < j =>
                LET a == ret.body.Tasks[i]
                    b == ret.body.Tasks[j]
                IN  /\ a.Priority >= b.Priority
                    /\ a.Priority = b.Priority =>
                         /\ (a.Deadline # 0 /\ b.Deadline # 0) => a.Deadline <= b.Deadline
                         /\ ~(a.Deadline = 0 /\ b.Deadline # 0)

(***************************************************************************)
(* models: the radar position of a task                                    *)
(***************************************************************************)
MathMax(a, b) == IF a >= b THEN a ELSE b
MathMin(a, b) == IF a <= b THEN a ELSE b

\* t.Sub(u).Hours(), for times counted in hours.
SubHours(t, u) == t - u

\* t.CalculateRadarPosition() at time now: the two coordinates it sets. X is
\* (timeDistance / 168) * 100 cut to 0..100 and is kept here in 168ths, so that
\* no fraction is lost; Y is 20 * Priority + 15 * EnergyLevel cut at 100 from
\* above only. A nil EventStart or Deadline is 0.
CalculateRadarPosition(t, now) ==
    LET timeDistance == IF t.EventStart # 0 THEN SubHours(t.EventStart, now)
                        ELSE IF t.Deadline # 0 THEN SubHours(t.Deadline, now)
                        ELSE 24
        priorityWeight == t.Priority * 20
        energyWeight == t.EnergyLevel * 15
    IN  [RadarPositionX168 |-> MathMax(0, MathMin(100 * 168, timeDistance * 100)),
         RadarPositionY |-> MathMin(100, priorityWeight + energyWeight)]

RadarTask(eventStart, deadline, priority, energy) ==
    [EventStart |-> eventStart, Deadline |-> deadline, Priority |-> priority,
     EnergyLevel |-> energy]

\* Priorities and energy levels a creation request can carry: the JSON body is
\* decoded into ints and stored as given.
RadarOrdinals == -1..MaxOrdinal

\* No time, a time before now, within the week after now, and later.
RadarTimes == {0, 1, 50, 400}
RadarNow == {2, 100}

RadarRequests ==
    {[op |-> "CalculateRadarPosition", task |-> RadarTask(s, d, p, e), now |-> n] :
        s \in RadarTimes, d \in RadarTimes, p \in RadarOrdinals,
        e \in RadarOrdinals, n \in RadarNow}

RadarCall == req = NoReq /\ \E r \in RadarRequests : Call(r)

\* A call of t.CalculateRadarPosition() on the task req.task at time req.now.
CalculateRadarPositionCall ==
    /\ Serving("CalculateRadarPosition")
    /\ ret' = CalculateRadarPosition(req.task, req.now)
    /\ UNCHANGED <<events, taskVars, req>>

RadarNext ==
    \/ RadarCall
    \/ CalculateRadarPositionCall
    \/ Return

SpecRadar == CostInit /\ [][RadarNext]_vars

\* C20: for every task the store can hold, with any integer priority and
\* energy level and any start time or deadline before or after now,
\* CalculateRadarPosition yields 0 <= x <= 100 and 0 <= y <= 100.
C20_RadarPositionInRange ==
    (req.op = "CalculateRadarPosition" /\ ret # Pending) =>
        /\ 0 <= ret.RadarPositionX168 /\ ret.RadarPositionX168 <= 100 * 168
        /\ 0 <= ret.RadarPositionY /\ ret.RadarPositionY <= 100

(***************************************************************************)
(* storage: exporting a calendar to a JSON file and importing it           *)
(***************************************************************************)
\* The value of key in a decoded JSON object, the Go zero value when the key
\* is absent.
JSONGet(object, key, zero) == IF key \in DOMAIN object THEN object[key] ELSE zero

\* time.Time as encoding/json writes it (RFC 3339): a date and a time of day.
MarshalTime(t) == [date |-> t \div 24, clock |-> t % 24]
UnmarshalTime(text) == text.date * 24 + text.clock

\* json.Marshal of a RecurrenceRule: type and interval always, the other
\* fields only when they are not empty (omitempty).
MarshalRule(rule) ==
    LET keys == {"type", "interval"}
                \cup (IF rule.EndDate # 0 THEN {"end_date"} ELSE {})
                \cup (IF rule.Count # 0 THEN {"count"} ELSE {})
                \cup (IF rule.WeekDays # 0 THEN {"week_days"} ELSE {})
                \cup (IF rule.MonthDay # 0 THEN {"month_day"} ELSE {})
    IN  [k \in keys |->
            CASE k = "type" -> rule.Type
              [] k = "interval" -> rule.Interval
              [] k = "end_date" -> MarshalTime(rule.EndDate)
              [] k = "count" -> rule.Count
              [] k = "week_days" -> rule.WeekDays
              [] k = "month_day" -> rule.MonthDay]

\* json.Unmarshal into a RecurrenceRule.
UnmarshalRule(object) ==
    Rule(JSONGet(object, "type", ""), JSONGet(object, "interval", 0),
         IF "end_date" \in DOMAIN object THEN UnmarshalTime(object["end_date"]) ELSE 0,
         JSONGet(object, "count", 0), JSONGet(object, "week_days", 0),
         JSONGet(object, "month_day", 0))

\* json.Marshal of an Event: description, location and tags are left out when
\* empty, the recurrence struct is always written.
MarshalEvent(event) ==
    LET keys == {"id", "title", "start_time", "end_time", "all_day", "recurrence",
                 "created_at", "updated_at"}
                \cup (IF event.Description # "" THEN {"description"} ELSE {})
                \cup (IF event.Location # "" THEN {"location"} ELSE {})
                \cup (IF Len(event.Tags) # 0 THEN {"tags"} ELSE {})
    IN  [k \in keys |->
            CASE k = "id" -> event.ID
              [] k = "title" -> event.Title
              [] k = "description" -> event.Description
              [] k = "location" -> event.Location
              [] k = "start_time" -> MarshalTime(event.StartTime)
              [] k = "end_time" -> MarshalTime(event.EndTime)
              [] k = "all_day" -> event.AllDay
              [] k = "recurrence" -> MarshalRule(event.Recurrence)
              [] k = "created_at" -> MarshalTime(event.CreatedAt)
              [] k = "updated_at" -> MarshalTime(event.UpdatedAt)
              [] k = "tags" -> event.Tags]

\* json.Unmarshal into an Event.
UnmarshalEvent(object) ==
    [ID |-> JSONGet(object, "id", ""), Title |-> JSONGet(object, "title", ""),
     Description |-> JSONGet(object, "description", ""),
     Location |-> JSONGet(object, "location", ""),
     StartTime |-> UnmarshalTime(object["start_time"]),
     EndTime |-> UnmarshalTime(object["end_time"]),
     AllDay |-> JSONGet(object, "all_day", FALSE),
     Recurrence |-> UnmarshalRule(object["recurrence"]),
     CreatedAt |-> UnmarshalTime(object["created_at"]),
     UpdatedAt |-> UnmarshalTime(object["updated_at"]),
     Tags |-> JSONGet(object, "tags", << >>)]

\* json.MarshalIndent of the CalendarData that ExportCalendar builds at time
\* now: the events by ID, the version and the two timestamps of the file.
MarshalCalendarData(store, now) ==
    [events |-> [id \in DOMAIN store |-> MarshalEvent(store[id])],
     version |-> "1.0",
     created_at |-> MarshalTime(now), updated_at |-> MarshalTime(now)]

\* What AddEvent(event) makes of the map store at time now: the map after the
\* call and the error returned. uuid is what uuid.New() returns.
AddEventTo(store, event, now, uuid) ==
    LET withID == IF event.ID = "" THEN [event EXCEPT !.ID = uuid] ELSE event
        stamped == [withID EXCEPT
                      !.CreatedAt = IF IsZero(withID.CreatedAt) THEN now ELSE @,
                      !.UpdatedAt = now]
    IN  IF validateEvent(withID) # "nil"
        THEN [events |-> store, err |-> "invalid event"]
        ELSE IF Cardinality(FindConflicts(store, stamped)) > 0
        THEN [events |-> store, err |-> "event conflicts with existing events"]
        ELSE [events |-> Put(store, stamped.ID, stamped), err |-> "nil"]

\* The loop of ImportCalendar: AddEvent of every decoded event, in the order
\* the range over the map takes them; an event AddEvent refuses is left out.
RECURSIVE ImportEvents(_, _, _, _)
ImportEvents(store, objects, order, now) ==
    IF order = << >> THEN store
    ELSE ImportEvents(
             AddEventTo(store, UnmarshalEvent(objects[Head(order)]), now, "u1").events,
             objects, Tail(order), now)

\* The orders in which a range over a map with the given keys can go.
RangeOrders(keys) ==
    {order \in [1..Cardinality(keys) -> keys] :
        \A k \in keys : \E i \in DOMAIN order : order[i] = k}

\* ExportCalendar(cal, exportPath) at time now: the file written.
ExportCalendar(now) ==
    /\ Serving("ExportCalendar")
    /\ ret' = [err |-> "nil", file |-> MarshalCalendarData(events, now)]
    /\ UNCHANGED <<events, taskVars, req>>

\* ImportCalendar(importPath) at time now, the file being req.file: the
\* calendar returned.
ImportCalendar(now) ==
    /\ Serving("ImportCalendar")
    /\ \E order \in RangeOrders(DOMAIN req.file.events) :
         ret' = [err |-> "nil",
                 cal |-> ImportEvents(<< >>, req.file.events, order, now)]
    /\ UNCHANGED <<events, taskVars, req>>

\* The caller of ExportCalendar imports the file it has just written.
ImportCall ==
    /\ req.op = "ExportCalendar" /\ ret # Pending /\ ret.err = "nil"
    /\ req' = [op |-> "ImportCalendar", file |-> ret.file]
    /\ ret' = Pending
    /\ UNCHANGED <<events, taskVars>>

\* The events the stored calendars are made of: two that follow each other,
\* one with every optional attribute set, and one that overlaps the others.
StorageEvents ==
    {Event("a", "t", 1, 2, NoRule, 0),
     [Event("b", "t", 2, 3, Rule(RecurrenceWeekly, 2, 0, 3, 2, 0), 0)
        EXCEPT !.Description = "d", !.Location = "l", !.AllDay = TRUE,
               !.Tags = <<"x", "y">>],
     Event("u1", "t", 3, 3, Rule(RecurrenceDaily, 1, 3, 0, 0, 0), 1),
     Event("a", "t", 1, 3, NoRule, 0)}

StorageRequests ==
    {[op |-> o, event |-> e] : o \in {"AddEvent", "UpdateEvent"}, e \in StorageEvents}
    \cup {[op |-> "RemoveEvent", id |-> i] : i \in {"a", "b"}}
    \cup {[op |-> "ExportCalendar"]}

StorageCall == req = NoReq /\ \E r \in StorageRequests : Call(r)

StorageNext ==
    \/ StorageCall
    \/ \E now \in Clock : \E uuid \in NewUUIDs : AddEvent(now, uuid)
    \/ \E now \in Clock : UpdateEvent(now)
    \/ RemoveEvent
    \/ \E now \in Clock : ExportCalendar(now)
    \/ ImportCall
    \/ \E now \in Clock : ImportCalendar(now)
    \/ Return

SpecStorage == CalInit /\ [][StorageNext]_vars

\* C21: for every calendar reached by AddEvent, UpdateEvent and RemoveEvent,
\* importing the file ExportCalendar wrote yields a calendar with the same
\* event IDs in which every event has the attributes of the exported one
\* (title, description, location, start, end, all-day, recurrence, tags,
\* created and updated timestamps).
C21_ExportImportRoundTrip ==
    (req.op = "ImportCalendar" /\ ret # Pending) =>
        /\ DOMAIN ret.cal = DOMAIN events
        /\ \A id \in DOMAIN ret.cal \cap DOMAIN events : ret.cal[id] = events[id]

(***************************************************************************)
(* Calendar: validation, unknown IDs                                       *)
(***************************************************************************)
\* The event recurs: its rule is of a type other than none. An event that
\* does not recur carries a rule of type none, which stands for no rule.
HasRecurrenceRule(event) == event.Recurrence.Type # RecurrenceNone

\* The event is invalid in one of the ways the claim lists.
InvalidAsListed(event) ==
    \/ event.Title = ""
    \/ event.StartTime = 0
    \/ event.EndTime = 0
    \/ event.EndTime < event.StartTime
    \/ /\ HasRecurrenceRule(event)
       /\ \/ event.Recurrence.Interval <= 0
          \/ event.Recurrence.EndDate # 0 /\ event.Recurrence.Count > 0
          \/ /\ event.Recurrence.Type = RecurrenceCustom
             /\ event.Recurrence.WeekDays = 0 /\ event.Recurrence.MonthDay = 0

\* C22: AddEvent returns a validation error and leaves the stored events
\* unchanged whenever the event has an empty title, a zero start or end time,
\* an end before its start, or a recurrence rule with interval <= 0, with both
\* an end date and a count, or of type custom with neither weekdays nor a
\* month-day.
C22_AddEventValidates ==
    [][(Serving("AddEvent") /\ req.event # NilEvent /\ InvalidAsListed(req.event))
         => (ret'.err = "invalid event" /\ events' = events)]_vars

\* C22 witness: AddEvent has refused, as invalid, an event whose only fault is
\* a rule with both an end date and a count, the store holding an event.
C22_Witness ==
    /\ req.op = "AddEvent" /\ ret # Pending /\ req.event # NilEvent
    /\ req.event.Title # "" /\ req.event.StartTime # 0
    /\ req.event.StartTime <= req.event.EndTime
    /\ req.event.Recurrence.Interval > 0
    /\ req.event.Recurrence.EndDate # 0 /\ req.event.Recurrence.Count > 0
    /\ ret.err = "invalid event"
    /\ DOMAIN events # {}

\* C23: UpdateEvent and RemoveEvent called with an ID that is not in the store
\* return a not-found error and leave the stored events unchanged (for the
\* empty ID, which is no ID, the error is that the ID is required); a
\* successful RemoveEvent removes exactly the named event and leaves every
\* other stored event unchanged.
C23_UnknownIDAndRemoveFrame ==
    [][/\ (/\ Serving("UpdateEvent") /\ req.event # NilEvent
           /\ req.event.ID \notin DOMAIN events)
          => /\ events' = events
             /\ ret'.err # "nil"
             /\ req.event.ID # "" => ret'.err = "not found"
       /\ (Serving("RemoveEvent") /\ req.id \notin DOMAIN events)
          => /\ events' = events
             /\ ret'.err # "nil"
             /\ req.id # "" => ret'.err = "not found"
       /\ (Serving("RemoveEvent") /\ ret'.err = "nil")
          => /\ req.id \in DOMAIN events
             /\ DOMAIN events' = DOMAIN events \ {req.id}
             /\ \A id \in DOMAIN events' : events'[id] = events[id]]_vars

\* C23 witness: RemoveEvent has removed one stored event and another one is
\* still stored.
C23_Witness ==
    /\ req.op = "RemoveEvent" /\ ret # Pending /\ ret.err = "nil"
    /\ req.id \notin DOMAIN events
    /\ DOMAIN events # {}

(***************************************************************************)
(* Calendar: AddEvent called from two goroutines                           *)
(*                                                                         *)
(* Calendar has one field, the map, and no lock (calendar.go:50-52); the   *)
(* statements of AddEvent of one goroutine interleave with those of the    *)
(* other. Two unsynchronised writes to a Go map are a data race: the       *)
(* runtime either carries both out or stops the program with "fatal error: *)
(* concurrent map writes".                                                 *)
(***************************************************************************)
\* A goroutine about to call AddEvent(event).
AddEventGoroutine(event) ==
    [op |-> "AddEvent", pc |-> "validateEvent", event |-> event, err |-> "nil"]

\* The events the two goroutines add.
ConcurrentEvents ==
    {Event("a", "t", 1, 3, NoRule, 0),
     Event("b", "t", 2, 3, NoRule, 0),
     Event("c", "t", 1, 2, NoRule, 0),
     Event("c", "t", 3, 3, NoRule, 1),
     Event("b", "", 1, 2, NoRule, 0)}

\* Two goroutines are started, each with a call of AddEvent.
GoAddEvent ==
    /\ goroutines = NoGoroutines
    /\ \E e1 \in ConcurrentEvents, e2 \in ConcurrentEvents :
         goroutines' = <<AddEventGoroutine(e1), AddEventGoroutine(e2)>>
    /\ UNCHANGED <<events, tasks, prereqs, budgets, req, ret, loop, mutex>>

\* AddEvent in goroutine g, up to the conflict check: the event is validated
\* and stamped.
AddEventValidate(g, now) ==
    /\ g \in DOMAIN goroutines
    /\ goroutines[g].op = "AddEvent" /\ goroutines[g].pc = "validateEvent"
    /\ LET event == goroutines[g].event
       IN  goroutines' =
             IF validateEvent(event) # "nil"
             THEN [goroutines EXCEPT ![g].pc = "returned", ![g].err = "invalid event"]
             ELSE [goroutines EXCEPT
                     ![g].pc = "FindConflicts",
                     ![g].event = [event EXCEPT
                          !.CreatedAt = IF IsZero(event.CreatedAt) THEN now ELSE @,
                          !.UpdatedAt = now]]
    /\ UNCHANGED <<events, tasks, prereqs, budgets, req, ret, loop, mutex>>

\* AddEvent in goroutine g: the conflict check, which reads the map.
AddEventFindConflicts(g) ==
    /\ g \in DOMAIN goroutines
    /\ goroutines[g].op = "AddEvent" /\ goroutines[g].pc = "FindConflicts"
    /\ goroutines' =
         IF Cardinality(FindConflicts(events, goroutines[g].event)) > 0
         THEN [goroutines EXCEPT ![g].pc = "returned",
                                 ![g].err = "event conflicts with existing events"]
         ELSE [goroutines EXCEPT ![g].pc = "insert"]
    /\ UNCHANGED <<events, tasks, prereqs, budgets, req, ret, loop, mutex>>

\* AddEvent in goroutine g: c.events[event.ID] = event, and the return.
AddEventInsert(g) ==
    /\ g \in DOMAIN goroutines
    /\ goroutines[g].op = "AddEvent" /\ goroutines[g].pc = "insert"
    /\ events' = Put(events, goroutines[g].event.ID, goroutines[g].event)
    /\ goroutines' = [goroutines EXCEPT ![g].pc = "returned"]
    /\ UNCHANGED <<tasks, prereqs, budgets, req, ret, loop, mutex>>

\* Both goroutines write the map at once and the runtime detects it: the
\* program stops.
ConcurrentMapWrites ==
    /\ \E g \in DOMAIN goroutines, h \in DOMAIN goroutines :
         /\ g # h
         /\ goroutines[g].op = "AddEvent" /\ goroutines[g].pc = "insert"
         /\ goroutines[h].op = "AddEvent" /\ goroutines[h].pc = "insert"
    /\ goroutines' = [g \in DOMAIN goroutines |-> [goroutines[g] EXCEPT !.pc = "fatal"]]
    /\ UNCHANGED <<events, tasks, prereqs, budgets, req, ret, loop, mutex>>

\* The goroutines have returned.
AllReturned ==
    /\ goroutines # NoGoroutines
    /\ \A g \in DOMAIN goroutines : goroutines[g].pc = "returned"

\* The goroutines are done with. After a fatal error the program starts again
\* with a new calendar.
Join ==
    /\ goroutines # NoGoroutines
    /\ \/ AllReturned /\ UNCHANGED events
       \/ /\ \A g \in DOMAIN goroutines : goroutines[g].pc = "fatal"
          /\ events' = << >>
    /\ goroutines' = NoGoroutines
    /\ UNCHANGED <<tasks, prereqs, budgets, req, ret, loop, mutex>>

ConcurrentNext ==
    \/ GoAddEvent
    \/ \E g \in {1, 2} : \E now \in Clock : AddEventValidate(g, now)
    \/ \E g \in {1, 2} : AddEventFindConflicts(g)
    \/ \E g \in {1, 2} : AddEventInsert(g)
    \/ ConcurrentMapWrites
    \/ Join

SpecConcurrent == CalInit /\ [][ConcurrentNext]_vars

\* C24: when two AddEvent calls for two mutually overlapping events with
\* different IDs run concurrently against the same Calendar, under every
\* interleaving at most one of them is inserted.
C24_ConcurrentAddsSerialized ==
    (/\ AllReturned
     /\ goroutines[1].event.ID # goroutines[2].event.ID
     /\ Overlapping(goroutines[1].event, goroutines[2].event))
    => ~(goroutines[1].err = "nil" /\ goroutines[2].err = "nil")

(***************************************************************************)
(* Recurrence: termination                                                 *)
(***************************************************************************)
\* Calls with an interval of zero or below, which validateRecurrenceRule would
\* have refused: no advance at all, for each type the loop advances, with and
\* without a terminator, before, in and after the window; and steps backwards,
\* with a count and without a terminator.
OddIntervalRequests ==
    {RecurRequest(RecurEvent(3, Rule(type, 0, 0, n, 0, 0)), w[1], w[2]) :
        type \in {RecurrenceDaily, RecurrenceWeekly, RecurrenceMonthly,
                  RecurrenceYearly, RecurrenceCustom},
        n \in {0, 2},
        w \in {<<At(5, 0), At(9, 0)>>, <<0, At(2, 0)>>}}
    \cup
    {RecurRequest(RecurEvent(10, Rule(RecurrenceDaily, -2, 0, 3, 0, 0)), 0, At(40, 0)),
     RecurRequest(RecurEvent(10, Rule(RecurrenceWeekly, -1, At(12, 0), 0, 0, 0)),
                  At(11, 0), At(40, 0)),
     RecurRequest(RecurEvent(RecurrenceLimit + 100, Rule(RecurrenceDaily, -1, 0, 0, 0, 0)),
                  0, At(2 * RecurrenceLimit, 0))}

TerminationRequests ==
    {RecurRequest(RecurEvent(day, rule), w[1], w[2]) :
        day \in 1..MaxStartDay, rule \in ShortRules, w \in ShortWindows}
    \cup OddIntervalRequests

TerminationCall == req = NoReq /\ \E r \in TerminationRequests : Call(r)

TerminationNext ==
    \/ TerminationCall
    \/ GenerateRecurringEvents
    \/ GenerateRecurringEventsLoop
    \/ Return

\* The goroutine that runs GenerateRecurringEvents is scheduled again and
\* again: a step of the function that can be taken is taken.
SpecTermination ==
    /\ RecurInit
    /\ [][TerminationNext]_vars
    /\ WF_vars(GenerateRecurringEvents)
    /\ WF_vars(GenerateRecurringEventsLoop)

\* C25: GenerateRecurringEvents terminates, returning instances or an error,
\* on every input: every recurrence type, every window and every interval,
\* zero and negative ones included.
C25_GenerateTerminates ==
    Serving("GenerateRecurringEvents") ~> (ret # Pending)

\* C25 witness: a call for an event with no terminator and an interval of
\* zero or below has returned, stopped by the limit on the passes.
C25_Witness ==
    /\ Expanded
    /\ req.event.Recurrence.Interval <= 0
    /\ req.event.Recurrence.Count = 0 /\ req.event.Recurrence.EndDate = 0
    /\ ret.err = "too many recurring instances"

(***************************************************************************)
(* Calendar: listing the events of a day                                   *)
(***************************************************************************)
\* The filter of ListEvents: the IDs of the stored events it keeps. A nil
\* startDate or endDate is 0.
ListEventsFilter(store, startDate, endDate) ==
    {id \in DOMAIN store :
        /\ ~(startDate # 0 /\ Before(store[id].EndTime, startDate))
        /\ ~(endDate # 0 /\ After(store[id].StartTime, endDate))}

\* The orders sort.Slice can leave the kept events in: the range over the map
\* takes them in any order and the sort, which is not stable, puts an event
\* before another when it starts before it.
ListEvents(store, startDate, endDate) ==
    {order \in RangeOrders(ListEventsFilter(store, startDate, endDate)) :
        \A i \in DOMAIN order, j \in DOMAIN order :
            Before(store[order[i]].StartTime, store[order[j]].StartTime) => i < j}

\* time.Date(date.Year(), date.Month(), date.Day(), 0, 0, 0, 0, date.Location())
StartOfDay(date) == Date(YearOf(date), MonthOf(date), DayOf(date), 0)

\* ListEventsForDay(req.date): the events returned, in their order.
ListEventsForDay ==
    /\ Serving("ListEventsForDay")
    /\ LET startOfDay == StartOfDay(req.date)
           endOfDay == startOfDay + 24
       IN  \E order \in ListEvents(events, startOfDay, endOfDay) :
             ret' = [events |-> [i \in DOMAIN order |-> events[order[i]]]]
    /\ UNCHANGED <<events, taskVars, req>>

\* Events around the two ends of day 1: one that ends at its 00:00, one that
\* crosses it, two inside the day, one that crosses its end, one that starts
\* at 00:00 of day 2, and two that lie outside.
DayEvents ==
    {Event("a", "t", At(0, 20), At(1, 0), NoRule, 0),
     Event("b", "t", At(0, 23), At(1, 1), NoRule, 0),
     Event("c", "t", At(1, 9), At(1, 11), NoRule, 0),
     Event("d", "t", At(1, 9), At(1, 9), NoRule, 0),
     Event("e", "t", At(1, 23), At(2, 1), NoRule, 0),
     Event("f", "t", At(2, 0), At(2, 2), NoRule, 0),
     Event("g", "t", At(0, 5), At(0, 6), NoRule, 0),
     Event("h", "t", At(2, 5), At(2, 6), NoRule, 0)}

\* The days asked for: day 1, at two times of the day, and day 0.
ListDates == {At(1, 0), At(1, 15), At(0, 7)}

ListRequests ==
    {[op |-> "AddEvent", event |-> e] : e \in DayEvents}
    \cup {[op |-> "RemoveEvent", id |-> i] : i \in {"a", "c"}}
    \cup {[op |-> "ListEventsForDay", date |-> d] : d \in ListDates}

ListCall == req = NoReq /\ \E r \in ListRequests : Call(r)

ListNext ==
    \/ ListCall
    \/ \E now \in Clock : \E uuid \in NewUUIDs : AddEvent(now, uuid)
    \/ RemoveEvent
    \/ ListEventsForDay
    \/ Return

SpecList == CalInit /\ [][ListNext]_vars

\* The stored events that overlap the day of date, [00:00 of the day, 00:00 of
\* the next day), under the half-open overlap test of eventsOverlap.
OverlappingDay(date) ==
    {id \in DOMAIN events :
        /\ events[id].StartTime < StartOfDay(date) + 24
        /\ StartOfDay(date) < events[id].EndTime}

\* C26: ListEventsForDay(date) returns, sorted by start time ascending,
\* exactly the stored events that overlap [00:00 of date, 00:00 of the next
\* day) under the half-open overlap test of FindConflicts; an event that
\* starts at 00:00 of the next day, or ends at 00:00 of date, is not returned.
C26_ListEventsForDayHalfOpen ==
    (req.op = "ListEventsForDay" /\ ret # Pending) =>
        /\ {ret.events[i].ID : i \in DOMAIN ret.events} = OverlappingDay(req.date)
        /\ \A i \in DOMAIN ret.events, j \in DOMAIN ret.events :
             i < j => ret.events[i].StartTime <= ret.events[j].StartTime
        /\ \A i \in DOMAIN ret.events :
             /\ ret.events[i].StartTime # StartOfDay(req.date) + 24
             /\ ret.events[i].EndTime # StartOfDay(req.date)

(***************************************************************************)
(* database: GetDailyBudget called from two goroutines                     *)
(*                                                                         *)
(* net/http serves every request in a goroutine of its own, and            *)
(* GetDailyBudget is a SELECT followed, when it finds no row, by the       *)
(* INSERT of CreateDailyBudget. The two statements are not in one          *)
(* transaction; each of them is atomic in the database.                    *)
(***************************************************************************)
\* A goroutine about to call db.GetDailyBudget(date).
GetDailyBudgetGoroutine(date) ==
    [op |-> "GetDailyBudget", pc |-> "SELECT", date |-> date, err |-> "nil",
     budget |-> DailyBudget(0, 0)]

\* The days the budget is asked for.
BudgetDates == {0, 1, 2}

\* Two requests arrive, each of which calls GetDailyBudget.
GoGetDailyBudget ==
    /\ goroutines = NoGoroutines
    /\ \E d1 \in BudgetDates, d2 \in BudgetDates :
         goroutines' = <<GetDailyBudgetGoroutine(d1), GetDailyBudgetGoroutine(d2)>>
    /\ UNCHANGED <<events, tasks, prereqs, budgets, req, ret, loop, mutex>>

\* GetDailyBudget in goroutine g: the SELECT. A row found is returned; with
\* sql.ErrNoRows the goroutine goes on to CreateDailyBudget.
GetDailyBudgetSelect(g) ==
    /\ g \in DOMAIN goroutines
    /\ goroutines[g].op = "GetDailyBudget" /\ goroutines[g].pc = "SELECT"
    /\ goroutines' =
         IF goroutines[g].date \in DOMAIN budgets
         THEN [goroutines EXCEPT ![g].pc = "returned",
                                 ![g].budget = budgets[goroutines[g].date]]
         ELSE [goroutines EXCEPT ![g].pc = "INSERT"]
    /\ UNCHANGED <<events, tasks, prereqs, budgets, req, ret, loop, mutex>>

\* CreateDailyBudget in goroutine g: the INSERT, which the UNIQUE constraint
\* on date refuses when the date has a row.
CreateDailyBudget(g) ==
    /\ g \in DOMAIN goroutines
    /\ goroutines[g].op = "GetDailyBudget" /\ goroutines[g].pc = "INSERT"
    /\ IF goroutines[g].date \in DOMAIN budgets
       THEN /\ goroutines' = [goroutines EXCEPT
                                ![g].pc = "returned",
                                ![g].err = "failed to create daily budget"]
            /\ UNCHANGED budgets
       ELSE /\ budgets' = [d \in DOMAIN budgets \cup {goroutines[g].date} |->
                             IF d = goroutines[g].date THEN DailyBudget(500, 0)
                             ELSE budgets[d]]
            /\ goroutines' = [goroutines EXCEPT ![g].pc = "returned",
                                                ![g].budget = DailyBudget(500, 0)]
    /\ UNCHANGED <<events, tasks, prereqs, req, ret, loop, mutex>>

BudgetNext ==
    \/ GoGetDailyBudget
    \/ \E g \in {1, 2} : GetDailyBudgetSelect(g)
    \/ \E g \in {1, 2} : CreateDailyBudget(g)
    \/ Join

SpecBudget == TaskInit /\ [][BudgetNext]_vars

\* C27: for a date that has no budget record, concurrent get-or-create calls
\* under every interleaving all return a budget for that date with total 500,
\* and one record for the date exists afterwards: no call fails because
\* another call created the record first.
C27_ConcurrentGetOrCreate ==
    (AllReturned /\ \A g \in DOMAIN goroutines : goroutines[g].op = "GetDailyBudget")
    => \A g \in DOMAIN goroutines :
         /\ goroutines[g].err = "nil"
         /\ goroutines[g].budget.TotalBudgetCoins = 500
         /\ goroutines[g].date \in DOMAIN budgets

(***************************************************************************)
(* storage: RepairStorage and ValidateStorage under JSONStorage.mutex      *)
(*                                                                         *)
(* sync.RWMutex: Lock waits until no goroutine holds the lock for writing  *)
(* or reading, RLock waits until none holds it for writing. The lock does  *)
(* not know its holder: a goroutine that holds it and asks for it again    *)
(* waits like any other. What the files hold is left to the environment:   *)
(* the validation finds the data valid or not, and a backup exists or not. *)
(***************************************************************************)
\* A goroutine about to call RepairStorage or ValidateStorage.
StorageGoroutine(op) ==
    [op |-> op, pc |-> IF op = "RepairStorage" THEN "Lock" ELSE "RLock",
     err |-> "nil", restored |-> FALSE]

StorageCallers == 1..MaxStorageCallers

\* One goroutine or several call into the storage.
GoStorage ==
    /\ goroutines = NoGoroutines
    /\ \E n \in StorageCallers :
         \E ops \in [1..n -> {"RepairStorage", "ValidateStorage"}] :
            goroutines' = [g \in 1..n |-> StorageGoroutine(ops[g])]
    /\ UNCHANGED <<events, tasks, prereqs, budgets, req, ret, loop, mutex>>

\* RepairStorage in goroutine g: s.mutex.Lock(), after which it calls
\* ValidateStorage.
RepairStorageLock(g) ==
    /\ g \in DOMAIN goroutines
    /\ goroutines[g].op = "RepairStorage" /\ goroutines[g].pc = "Lock"
    /\ mutex.writer = NoWriter /\ DOMAIN mutex.readers = {}
    /\ mutex' = [mutex EXCEPT !.writer = g]
    /\ goroutines' = [goroutines EXCEPT ![g].pc = "RLock"]
    /\ UNCHANGED <<events, tasks, prereqs, budgets, req, ret, loop>>

\* ValidateStorage in goroutine g, called by the goroutine itself or from its
\* RepairStorage: s.mutex.RLock().
ValidateStorageRLock(g) ==
    /\ g \in DOMAIN goroutines
    /\ goroutines[g].pc = "RLock"
    /\ mutex.writer = NoWriter
    /\ mutex' = [mutex EXCEPT !.readers = Put(@, g, 1)]
    /\ goroutines' = [goroutines EXCEPT ![g].pc = "validate"]
    /\ UNCHANGED <<events, tasks, prereqs, budgets, req, ret, loop>>

\* ValidateStorage in goroutine g from the read lock on: the data is found
\* valid or not, the read lock is released, and the function returns, to the
\* caller or into RepairStorage. RepairStorage then returns nil for valid
\* data; otherwise it returns an error when there is no backup, or restores
\* the newest backup and validates again; after the second validation it
\* returns. Each return of RepairStorage releases the write lock.
ValidateStorageReturn(g, valid, backup) ==
    /\ g \in DOMAIN goroutines
    /\ goroutines[g].pc = "validate"
    /\ LET err == IF valid THEN "nil" ELSE "storage validation failed"
           me == goroutines[g]
       IN  IF me.op = "ValidateStorage"
           THEN /\ goroutines' = [goroutines EXCEPT ![g].pc = "returned", ![g].err = err]
                /\ mutex' = [mutex EXCEPT !.readers = Delete(@, g)]
           ELSE IF valid
           THEN /\ goroutines' = [goroutines EXCEPT ![g].pc = "returned"]
                /\ mutex' = [writer |-> NoWriter, readers |-> Delete(mutex.readers, g)]
           ELSE IF me.restored
           THEN /\ goroutines' = [goroutines EXCEPT
                                    ![g].pc = "returned",
                                    ![g].err = "restored data is still invalid"]
                /\ mutex' = [writer |-> NoWriter, readers |-> Delete(mutex.readers, g)]
           ELSE IF ~backup
           THEN /\ goroutines' = [goroutines EXCEPT
                                    ![g].pc = "returned",
                                    ![g].err = "no backups available for repair"]
                /\ mutex' = [writer |-> NoWriter, readers |-> Delete(mutex.readers, g)]
           ELSE /\ goroutines' = [goroutines EXCEPT ![g].pc = "RLock",
                                                    ![g].restored = TRUE]
                /\ mutex' = [mutex EXCEPT !.readers = Delete(@, g)]
    /\ UNCHANGED <<events, tasks, prereqs, budgets, req, ret, loop>>

RepairNext ==
    \/ GoStorage
    \/ \E g \in StorageCallers : RepairStorageLock(g)
    \/ \E g \in StorageCallers : ValidateStorageRLock(g)
    \/ \E g \in StorageCallers : \E valid \in BOOLEAN, backup \in BOOLEAN :
          ValidateStorageReturn(g, valid, backup)
    \/ Join

\* Every goroutine that can take a step is scheduled.
SpecRepair ==
    /\ CalInit
    /\ [][RepairNext]_vars
    /\ \A g \in StorageCallers :
         /\ WF_vars(RepairStorageLock(g))
         /\ WF_vars(ValidateStorageRLock(g))
         /\ WF_vars(\E valid \in BOOLEAN, backup \in BOOLEAN :
                       ValidateStorageReturn(g, valid, backup))

\* A call of RepairStorage has not returned.
InRepairStorage ==
    \E g \in DOMAIN goroutines :
        goroutines[g].op = "RepairStorage" /\ goroutines[g].pc # "returned"

\* C28: RepairStorage always returns, nil or an error, and never blocks
\* forever, also when no other goroutine is using the storage.
C28_RepairStorageReturns == InRepairStorage ~> ~InRepairStorage

(***************************************************************************)
(* Calendar: what a successful AddEvent changes; events without a rule     *)
(***************************************************************************)
\* C29: a successful AddEvent increases the number of stored events by
\* exactly one and leaves every previously stored event unchanged, also when
\* the event carries an ID that is already in the store.
C29_AddEventAddsOne ==
    [][(Serving("AddEvent") /\ ret'.err = "nil")
         => /\ Cardinality(DOMAIN events') = Cardinality(DOMAIN events) + 1
            /\ \A id \in DOMAIN events :
                 id \in DOMAIN events' /\ events'[id] = events[id]]_vars

\* C30: AddEvent accepts an otherwise valid event that conflicts with no
\* stored event and whose recurrence rule is left unset (the zero value: empty
\* type, interval 0, no end date, no count), and stores it as an event that
\* does not recur.
C30_UnsetRuleAccepted ==
    [][(/\ Serving("AddEvent") /\ req.event # NilEvent
        /\ req.event.Recurrence = ZeroRule
        /\ req.event.Title # "" /\ req.event.StartTime # 0 /\ req.event.EndTime # 0
        /\ req.event.StartTime <= req.event.EndTime
        /\ req.event.ID # ""
        /\ OverlappedBy(req.event) = {})
         => /\ ret'.err = "nil"
            /\ req.event.ID \in DOMAIN events'
            /\ events'[req.event.ID].Recurrence.Type \in {"", RecurrenceNone}]_vars


============================================================================
